---- MODULE Spec2Model ----
(***************************************************************************)
(* AI Ski Jump Championship: the round/flight simulation core.             *)
(*                                                                         *)
(* The game orchestrator (AISkiJumpGame, src/unnamed/part_006 from line    *)
(* 2400), the launch timer (src/unnamed/part_000 from line 640), the       *)
(* landing timer and the physics module (src/src/physics.js) and the       *)
(* constants (src/unnamed/part_004) are modelled as one state machine.     *)
(*                                                                         *)
(* Units.  The JavaScript code computes in doubles; the model computes in  *)
(* integers:                                                               *)
(*   positions   in 1/1000 px        velocities in 1/1000 px per second    *)
(*   flight time in ticks of 1/60 s  approach time in milliseconds         *)
(*   wind        in 1/10 m/s         distances  in 1/10 m (as the code     *)
(*   multipliers in 1/100                        rounds them)              *)
(* FlightState.distance is kept in 1/1000 m.                               *)
(*                                                                         *)
(* React scheduling.  A handler run by a discrete input event is committed *)
(* (rendered, passive effects run) before any other task: pending = "sync" *)
(* lets only Commit run.  A handler run by a timer or a frame callback is  *)
(* committed in a later task: pending = "async" lets input events reach    *)
(* the listeners that are still attached before Commit runs.               *)
(***************************************************************************)
EXTENDS Integers, Sequences, FiniteSets, TLC

VARIABLES
  screen,             \* useState('TITLE')
  currentRound,       \* useState(0)
  scores,             \* useState([])
  currentWind,        \* useState(0)
  flightProgress,     \* useState(0): numerator in ticks, over flightTotalTimeEst
  finalScores,        \* useState([])
  totalScore,         \* useState(0)
  finalGrade,         \* useState(null): index into GRADE_TIERS, 0 = null
  isNewRecord,        \* useState(false)
  storage,            \* localStorage: [best, gamesPlayed, tutorialSeen]
  flightState,        \* flightStateRef.current (NoFlight = null)
  flightTotalTimeEst, \* flightTotalTimeEstRef.current, in ticks
  animFrameRef,       \* animFrameRef.current: the callback its id names
  rafQueue,           \* frame callbacks the browser holds, counted by name
  timers,             \* pending setTimeout callbacks
  elapsed,            \* performance.now() - start of the approach, ms
  autoLaunchDue,      \* elapsed time at which the auto-launch timer is due
  launchTimer,        \* LaunchTimer refs: [launchedRef, startTimeRef, listening]
  landingTimer,       \* LandingTimer refs: [landedRef, listening]
  effScreen,          \* the screen whose effects are in place (last commit)
  pending,            \* "none" | "sync" | "async": a render waiting to commit
  lastLaunch,         \* the payload of the last onLaunch call
  launchCalls,        \* onLaunch calls since the approach effects were set up
  landCalls,          \* onLand calls since the flight effects were set up
  absorbed,           \* taps since the last commit that met a latched guard
  inputsLeft,         \* player input events still to come (exploration bound)
  frameTicks,         \* the display's frame interval, in ticks of 1/60 s
  landedCalls,        \* simulateFlight calls made on a state that had landed
  config,             \* the constants the game was built with: [timing]
  launchVelRef        \* launchVelRef.current (NoVel = null)

vars == << screen, currentRound, scores, currentWind, flightProgress,
           finalScores, totalScore, finalGrade, isNewRecord, storage,
           flightState, flightTotalTimeEst, launchVelRef, animFrameRef, rafQueue, timers,
           elapsed, autoLaunchDue, launchTimer, landingTimer, effScreen,
           pending, lastLaunch, launchCalls, landCalls, absorbed,
           inputsLeft, frameTicks, landedCalls, config >>

-----------------------------------------------------------------------------
(* Bounds of the exploration *)

\* Player input events that reach a handler, per session, in a one-round run.
MaxInputs == 3
\* The same, in a run over whole games.
MaxGameInputs == 1
\* Completed games per session.
MaxGames == 1
\* Time between two animation frames during the approach, ms.
ApproachStep == 100

\* The flight progress, in percent, at which the player of a whole game taps.
TapProgressPct == 78

\* simulateFlight calls the flight runs make on a state that has landed.
MaxLandedCalls == 2

\* Wind samples out of WIND_RANGE, 1/10 m/s.
Winds == {-40, 30}
\* Frame intervals: 1/60 s (a 60 Hz display) and 3/60 s (the 0.05 s cap).
FrameTickChoices == {1, 3}
\* The frame interval of the runs over whole games.
GameFrameTicks == {3}
InputKinds == {"pointerdown", "Space", "ArrowUp"}

-----------------------------------------------------------------------------
(* constants.js *)

GAME_W == 400
GAME_H == 700
RAMP_LIP_X == 175
RAMP_LIP_Y == 380
LANDING_HILL_SLOPE_PCT == 38
GRAVITY_MILLI == 9810
AIR_RESISTANCE_MILLI == 15
RAMP_HEIGHT == 260
MAX_DISTANCE == 200
ROUNDS_PER_GAME == 5
BEST_N == 3
APPROACH_DURATION == 1500
AUTO_LAUNCH_DELAY == 700

TIMING == [perfect |-> 100, good |-> 220, ok |-> 400]
SPEED_MULT == [perfect |-> 130, good |-> 105, ok |-> 80, miss |-> 55]
LANDING_MULT == [telemark |-> 130, clean |-> 110, shaky |-> 95, crash |-> 70]
WIND_RANGE == [min |-> -40, max |-> 30]

LaunchGrades == {"perfect", "good", "ok", "miss"}
LandingGrades == {"telemark", "clean", "shaky", "crash"}

\* GRADE_TIERS, highest first: the minimum score of each tier, in 1/10 m.
GRADE_TIERS == << 4000, 3000, 2000, 1200, 500, 0 >>

\* LAUNCH_ANGLES as calculateLaunchVelocity reads it: a fixed angle for
\* perfect, and the bounds of a random draw for the other grades.
LAUNCH_ANGLES ==
  [perfect |-> [min |-> 38, max |-> 38], good |-> [min |-> 30, max |-> 42],
   ok |-> [min |-> 22, max |-> 48], miss |-> [min |-> 12, max |-> 55]]

\* The configuration the launch timer reads: the timing thresholds, as
\* constants.js exports them.
ShippedConfig == [timing |-> TIMING]

-----------------------------------------------------------------------------
(* physics.js *)

PIXELS_PER_METRE_MILLI == 1265
PIXEL_SCALE_TENTHS == 32
GRAVITY_SCALE == 10
VERT_DRAG_RATIO_TENTHS == 3

Max(a, b) == IF a >= b THEN a ELSE b
Min(a, b) == IF a <= b THEN a ELSE b
Abs(a) == IF a >= 0 THEN a ELSE -a

clamp(val, min, max) == Max(min, Min(max, val))

\* v * Math.pow(1 - rate, n): n factors of (1 - num/den), one at a time.
RECURSIVE Damp(_, _, _, _)
Damp(v, num, den, n) ==
  IF n = 0 THEN v ELSE Damp(v - (v * num) \div den, num, den, n - 1)

\* Math.round of the rational n / d (d > 0): floor(n/d + 1/2).
RoundDiv(n, d) == (2 * n + d) \div (2 * d)

\* Math.sqrt, in integers: the largest r with r * r <= n, for n below 2^31
\* (46340 is the largest root there).
RECURSIVE SqrtFrom(_, _, _)
SqrtFrom(n, lo, hi) ==
  IF lo >= hi THEN lo
  ELSE LET mid == (lo + hi + 1) \div 2
       IN IF mid * mid <= n THEN SqrtFrom(n, mid, hi)
          ELSE SqrtFrom(n, lo, mid - 1)
Sqrt(n) == SqrtFrom(n, 0, Min(n, 46340))

\* Math.cos and Math.sin of the angles a launch can draw, times 1000.
CosMilli(deg) ==
  CASE deg = 12 -> 978 [] deg = 22 -> 927 [] deg = 30 -> 866
    [] deg = 38 -> 788 [] deg = 42 -> 743 [] deg = 48 -> 669
    [] deg = 55 -> 574
SinMilli(deg) ==
  CASE deg = 12 -> 208 [] deg = 22 -> 375 [] deg = 30 -> 500
    [] deg = 38 -> 616 [] deg = 42 -> 669 [] deg = 48 -> 743
    [] deg = 55 -> 819

\* randBetween(min, max): the draws the model follows are the two ends.
randBetween(min, max) == {min, max}

\* G_PX = GRAVITY * GRAVITY_SCALE, in 1/1000 px/s^2.
G_PX == GRAVITY_MILLI * GRAVITY_SCALE

\* baseSpeedMs = Math.sqrt(2 * GRAVITY * RAMP_HEIGHT), in 1/100 m/s.
BaseSpeedMs == Sqrt(2 * GRAVITY_MILLI * RAMP_HEIGHT * 10)

\* LaunchVelocityAt that leaves the speed factor of the grade out.
LaunchVelocityAtUngraded(timingGrade, angleDeg, windSpeed) ==
  LET speed == (BaseSpeedMs * 100 * PIXEL_SCALE_TENTHS) \div 100
  IN [vx |-> (speed * CosMilli(angleDeg)) \div 1000
               + windSpeed * PIXEL_SCALE_TENTHS * 3,
      vy |-> -((speed * SinMilli(angleDeg)) \div 1000),
      speed |-> speed,
      angle |-> angleDeg]

\* LaunchVelocityAt with the wind added to the vertical velocity as well.
LaunchVelocityAtWindLift(timingGrade, angleDeg, windSpeed) ==
  LET speed == (BaseSpeedMs * SPEED_MULT[timingGrade] * PIXEL_SCALE_TENTHS) \div 100
  IN [vx |-> (speed * CosMilli(angleDeg)) \div 1000
               + windSpeed * PIXEL_SCALE_TENTHS * 3,
      vy |-> -((speed * SinMilli(angleDeg)) \div 1000)
               + windSpeed * PIXEL_SCALE_TENTHS * 3,
      speed |-> speed,
      angle |-> angleDeg]

\* The velocity of one launch with the angle already drawn.
LaunchVelocityAt(timingGrade, angleDeg, windSpeed) ==
  LET speed == (BaseSpeedMs * SPEED_MULT[timingGrade] * PIXEL_SCALE_TENTHS) \div 100
  IN [vx |-> (speed * CosMilli(angleDeg)) \div 1000
               + windSpeed * PIXEL_SCALE_TENTHS * 3,
      vy |-> -((speed * SinMilli(angleDeg)) \div 1000),
      speed |-> speed,
      angle |-> angleDeg]

\* calculateLaunchVelocity that draws the angle of a perfect launch like
\* that of a good one.
calculateLaunchVelocityDrawn(timingGrade, windSpeed) ==
  LET range == IF timingGrade = "perfect" THEN LAUNCH_ANGLES.good
               ELSE LAUNCH_ANGLES[timingGrade]
  IN { LaunchVelocityAt(timingGrade, a, windSpeed) :
         a \in randBetween(range.min, range.max) }

\* calculateLaunchVelocity: every result the random draw can give.
calculateLaunchVelocity(timingGrade, windSpeed) ==
  { LaunchVelocityAt(timingGrade, a, windSpeed) :
      a \in randBetween(LAUNCH_ANGLES[timingGrade].min,
                        LAUNCH_ANGLES[timingGrade].max) }

getHillY(x) ==
  IF x < RAMP_LIP_X * 1000 THEN RAMP_LIP_Y * 1000
  ELSE clamp(RAMP_LIP_Y * 1000
               + ((x - RAMP_LIP_X * 1000) * LANDING_HILL_SLOPE_PCT) \div 100,
             0, GAME_H * 1000)

\* MetresOf without the clamp to [0, MAX_DISTANCE].
MetresOfUnclamped(dx) == (dx * 1000) \div PIXELS_PER_METRE_MILLI

\* distance in 1/1000 m of a run of dx (1/1000 px) along the hill.
MetresOf(dx) ==
  clamp((dx * 1000) \div PIXELS_PER_METRE_MILLI, 0, MAX_DISTANCE * 1000)

NoFlight == [landed |-> FALSE, none |-> TRUE]
NoVel == [none |-> TRUE]

createFlightState(launchVel) ==
  [x |-> RAMP_LIP_X * 1000, y |-> RAMP_LIP_Y * 1000,
   vx |-> launchVel.vx, vy |-> launchVel.vy,
   landed |-> FALSE, distance |-> 0, flightTime |-> 0]

\* HillContact without the test that x has passed the lip.
HillContactAnyX(s) ==
  IF s.y >= getHillY(s.x)
  THEN [s EXCEPT !.y = getHillY(s.x), !.landed = TRUE,
                 !.distance = MetresOf(s.x - RAMP_LIP_X * 1000)]
  ELSE s

\* The hill-contact test of simulateFlight, on the integrated state.
HillContact(s) ==
  IF s.y >= getHillY(s.x) /\ s.x > RAMP_LIP_X * 1000
  THEN [s EXCEPT !.y = getHillY(s.x), !.landed = TRUE,
                 !.distance = MetresOf(s.x - RAMP_LIP_X * 1000)]
  ELSE s

\* simulateFlight without its safety bound.
SafetyBoundOff(s) == s

\* The safety bound of simulateFlight.
SafetyBound(s) ==
  IF s.x > (GAME_W + 20) * 1000 \/ s.y > (GAME_H + 20) * 1000
  THEN [s EXCEPT !.landed = TRUE,
                 !.distance = MetresOf(clamp(s.x - RAMP_LIP_X * 1000, 0,
                                             GAME_W * 1000))]
  ELSE s

\* Gravity, drag and position update of simulateFlight over dt ticks.
Integrate(s, dt) ==
  LET vy1 == s.vy + (G_PX * dt) \div 60
      vx2 == Damp(s.vx, AIR_RESISTANCE_MILLI, 1000, dt)
      vy2 == Damp(vy1, AIR_RESISTANCE_MILLI * VERT_DRAG_RATIO_TENTHS, 10000, dt)
  IN [s EXCEPT !.vx = vx2, !.vy = vy2,
               !.x = s.x + (vx2 * dt) \div 60,
               !.y = s.y + (vy2 * dt) \div 60,
               !.flightTime = s.flightTime + dt]

\* F(x), with x evaluated once before F is applied.
Strict(F(_), x) == CHOOSE r \in { F(v) : v \in {x} } : TRUE

\* simulateFlight without the early return on a landed state.
simulateFlightNoGuard(s, dt) ==
  Strict(SafetyBound, Strict(HillContact, Integrate(s, dt)))

simulateFlight(s, dt) ==
  IF s.landed THEN s
  ELSE Strict(SafetyBound, Strict(HillContact, Integrate(s, dt)))

\* n iterations of "if (!s.landed) simulateFlight(s, 1/60)", run in halves
\* to keep the evaluation shallow.
RECURSIVE Steps(_, _)
Steps(s, n) ==
  IF s.landed \/ n = 0 THEN s
  ELSE IF n = 1 THEN simulateFlight(s, 1)
  ELSE CHOOSE r \in { Steps(h, n - n \div 2) : h \in {Steps(s, n \div 2)} } :
         TRUE

\* n iterations of "if (!s.landed) simulateFlight(s, dt)", in halves.
RECURSIVE StepsBy(_, _, _)
StepsBy(s, dt, n) ==
  IF s.landed \/ n = 0 THEN s
  ELSE IF n = 1 THEN simulateFlight(s, dt)
  ELSE CHOOSE r \in { StepsBy(h, dt, n - n \div 2) :
                        h \in {StepsBy(s, dt, n \div 2)} } : TRUE

\* EstimateFlightTime without Math.max(estTime, 0.5).
EstimateFlightTimeNoFloor(launchVel) ==
  Steps(createFlightState(launchVel), 10 * 60).flightTime

\* The estimation loop of handleLaunch: steps of 1/60 s while the state has
\* not landed and estTime < 10 s; estTime counts the steps like flightTime
\* does.  The result is at least 0.5 s.
EstimateFlightTime(launchVel) ==
  Max(Steps(createFlightState(launchVel), 10 * 60).flightTime, 30)

\* The point calculateFlightPath pushes for a state.
PathPoint(s) == [x |-> s.x, y |-> s.y, t |-> s.flightTime]

\* The points the loop of calculateFlightPath pushes in at most n
\* iterations from s: one before each step, while the state has not landed.
RECURSIVE PathPoints(_, _)
PathPoints(s, n) ==
  IF s.landed \/ n = 0 THEN << >>
  ELSE IF n = 1 THEN << PathPoint(s) >>
  ELSE PathPoints(s, n \div 2)
         \o PathPoints(Steps(s, n \div 2), n - n \div 2)

\* calculateFlightPath: steps of 1/60 s while the state has not landed and
\* flightTime < 10 s, then the landing point.
calculateFlightPath(launchVel) ==
  PathPoints(createFlightState(launchVel), 10 * 60)
    \o << PathPoint(Steps(createFlightState(launchVel), 10 * 60)) >>

\* calculateScore with Math.floor for the final distance.
calculateScoreFloor(rawDistance, multiplier) ==
  LET raw == RoundDiv(rawDistance, 100)
  IN { [finalDistance |-> (raw * multiplier) \div 100,
        raw |-> raw, multiplier |-> multiplier] }

\* calculateScore: rawDistance in 1/1000 m; raw and finalDistance in 1/10 m.
\* The results it can give: raw * multiplier * 10 is a product of doubles,
\* and where the exact product ends in .5 the double may lie just below it
\* (1.5 * 0.7 * 10 is 10.499999999999998), so that Math.round gives the
\* lower tenth; elsewhere the rounding is that of the exact product.
calculateScore(rawDistance, multiplier) ==
  LET raw == RoundDiv(rawDistance, 100)
      up == RoundDiv(raw * multiplier, 100)
      finals == IF (raw * multiplier) % 100 = 50 THEN {up - 1, up} ELSE {up}
  IN { [finalDistance |-> f, raw |-> raw, multiplier |-> multiplier] :
         f \in finals }

-----------------------------------------------------------------------------
(* LaunchTimer *)

\* gradeFromError of the launch timer with the test of the good threshold
\* turned around.
launchGradeFromErrorReversed(error) ==
  IF error <= config.timing.perfect THEN "perfect"
  ELSE IF error >= config.timing.good THEN "good"
  ELSE IF error <= config.timing.ok THEN "ok"
  ELSE "miss"

\* gradeFromError of the launch timer with exclusive thresholds.
launchGradeFromErrorStrict(error) ==
  IF error < config.timing.perfect THEN "perfect"
  ELSE IF error < config.timing.good THEN "good"
  ELSE IF error < config.timing.ok THEN "ok"
  ELSE "miss"

\* gradeFromError of the launch timer: the timing error is in ms.
launchGradeFromError(error) ==
  IF error <= config.timing.perfect THEN "perfect"
  ELSE IF error <= config.timing.good THEN "good"
  ELSE IF error <= config.timing.ok THEN "ok"
  ELSE "miss"

\* buildLaunchPayload; the payload's own random angle is read by nobody (the
\* orchestrator destructures { grade } only) and is left out.
buildLaunchPayload(grade) == [grade |-> grade, speedMult |-> SPEED_MULT[grade]]

NoLaunch == [grade |-> "none", speedMult |-> 0]

-----------------------------------------------------------------------------
(* The browser's frame queue *)

FrameNames == {"approachTick", "launchTick", "flightTick"}
NoFrames == [n \in FrameNames |-> 0]

\* requestAnimationFrame of each callback in names.
requestFrames(q, names) ==
  [n \in FrameNames |-> IF n \in names THEN q[n] + 1 ELSE q[n]]

\* cancelAnimationFrame of the ids in refs: a pending callback of that name
\* leaves the queue; null and the id of a callback that has run cancel
\* nothing.
cancelFrames(q, refs) ==
  [n \in FrameNames |-> IF n \in refs /\ q[n] > 0 THEN q[n] - 1 ELSE q[n]]

\* The callbacks with a request pending.
Queued == { n \in FrameNames : rafQueue[n] > 0 }

-----------------------------------------------------------------------------
(* LandingTimer *)

OPTIMAL_PROGRESS_PCT == 82
TAP_SHIFT_PCT == 2
AUTO_LAND_PROGRESS_PCT == 98
BOOST_ZONE_PCT == 50

\* GRADES with the multipliers of clean and shaky exchanged.
GRADESExchanged ==
  << [maxError |-> 6, grade |-> "telemark", multiplier |-> LANDING_MULT.telemark],
     [maxError |-> 14, grade |-> "clean", multiplier |-> LANDING_MULT.shaky],
     [maxError |-> 24, grade |-> "shaky", multiplier |-> LANDING_MULT.clean] >>

GRADES ==
  << [maxError |-> 6, grade |-> "telemark", multiplier |-> LANDING_MULT.telemark],
     [maxError |-> 14, grade |-> "clean", multiplier |-> LANDING_MULT.clean],
     [maxError |-> 24, grade |-> "shaky", multiplier |-> LANDING_MULT.shaky] >>
CRASH_GRADE == [grade |-> "crash", multiplier |-> LANDING_MULT.crash]

\* flightProgress is the fraction num / den; fp >= pct / 100.
ProgressAtLeast(num, den, pct) == 100 * num >= pct * den

\* gradeFromError of the landing timer, on error = |num/den - target/100|:
\* the first grade whose maxError bounds the error, else the crash grade.
RECURSIVE GradeFrom(_, _, _, _)
GradeFrom(i, num, den, target) ==
  IF i > Len(GRADES) THEN CRASH_GRADE
  ELSE IF Abs(100 * num - target * den) <= GRADES[i].maxError * den
       THEN [grade |-> GRADES[i].grade, multiplier |-> GRADES[i].multiplier]
       ELSE GradeFrom(i + 1, num, den, target)
landingGradeFromError(num, den, target) == GradeFrom(1, num, den, target)

\* doLandResult that grades a forced landing like a tap.
doLandResultGraded(forceGrade, num, den) ==
  landingGradeFromError(num, den, OPTIMAL_PROGRESS_PCT - TAP_SHIFT_PCT)

\* doLandResult that grades the tap against OPTIMAL_PROGRESS itself.
doLandResultUnshifted(forceGrade, num, den) ==
  IF forceGrade = "crash" THEN CRASH_GRADE
  ELSE landingGradeFromError(num, den, OPTIMAL_PROGRESS_PCT)

\* The result doLand reports: the crash grade when forced, else the grade of
\* the tap against OPTIMAL_PROGRESS - 0.02.
doLandResult(forceGrade, num, den) ==
  IF forceGrade = "crash" THEN CRASH_GRADE
  ELSE landingGradeFromError(num, den, OPTIMAL_PROGRESS_PCT - TAP_SHIFT_PCT)

-----------------------------------------------------------------------------
(* Scoring *)

\* getGrade with "totalScore > tier.min" for the tier test.
RECURSIVE TierFromStrict(_, _)
TierFromStrict(i, total) ==
  IF i > Len(GRADE_TIERS) THEN Len(GRADE_TIERS)
  ELSE IF total > GRADE_TIERS[i] THEN i ELSE TierFromStrict(i + 1, total)
getGradeStrict(total) == TierFromStrict(1, total)

\* getGrade: the index of the first tier whose min the score reaches, and
\* the last tier when none does.
RECURSIVE TierFrom(_, _)
TierFrom(i, total) ==
  IF i > Len(GRADE_TIERS) THEN Len(GRADE_TIERS)
  ELSE IF total >= GRADE_TIERS[i] THEN i ELSE TierFrom(i + 1, total)
getGrade(total) == TierFrom(1, total)

\* Array.prototype.sort with a comparator: a stable sort.  Element i goes
\* behind the elements the comparator puts before it and behind the earlier
\* elements the comparator ties with it.
sort(arr, cmp(_, _)) ==
  LET n == Len(arr)
      pos(i) == 1 + Cardinality({ j \in 1..n :
                      \/ cmp(arr[j], arr[i]) < 0
                      \/ cmp(arr[j], arr[i]) = 0 /\ j < i })
  IN [k \in 1..n |-> arr[CHOOSE i \in 1..n : pos(i) = k]]

ByDistanceDesc(a, b) == b.distance - a.distance
ByRound(a, b) == a.round - b.round

RECURSIVE SumCounted(_)
SumCounted(s) ==
  IF s = << >> THEN 0
  ELSE (IF Head(s).counted THEN Head(s).distance ELSE 0) + SumCounted(Tail(s))

\* finishOrdered with "i <= BEST_N" for the counted mark.
finishOrderedOneMore(prevScores) ==
  LET sorted == sort(prevScores, ByDistanceDesc)
      counted == [i \in 1..Len(sorted) |-> [sorted[i] EXCEPT !.counted = i - 1 <= BEST_N]]
  IN sort(counted, ByRound)

\* finishOrdered over the scores taken latest round first.
finishOrderedLatestFirst(prevScores) ==
  LET reversed == [i \in 1..Len(prevScores) |-> prevScores[Len(prevScores) + 1 - i]]
      sorted == sort(reversed, ByDistanceDesc)
      counted == [i \in 1..Len(sorted) |-> [sorted[i] EXCEPT !.counted = i - 1 < BEST_N]]
  IN sort(counted, ByRound)

\* finishOrdered without the sort back into round order.
finishOrderedByDistance(prevScores) ==
  LET sorted == sort(prevScores, ByDistanceDesc)
  IN [i \in 1..Len(sorted) |-> [sorted[i] EXCEPT !.counted = i - 1 < BEST_N]]

\* The updater of finishGame: the scores with the counted marks, in round order.
finishOrdered(prevScores) ==
  LET sorted == sort(prevScores, ByDistanceDesc)
      counted == [i \in 1..Len(sorted) |-> [sorted[i] EXCEPT !.counted = i - 1 < BEST_N]]
  IN sort(counted, ByRound)

\* total of finishGame: Math.round(sum * 10) / 10 of the counted distances.
finishTotal(ordered) == RoundDiv(SumCounted(ordered) * 10, 10)

\* roundResult that measures the run from the left edge of the scene, not
\* from RAMP_LIP.
roundResultFromOrigin(round, state, landing, wind) ==
  LET rawDist == IF state = NoFlight THEN 0
                 ELSE Max(0, (state.x * 1000) \div PIXELS_PER_METRE_MILLI)
  IN { [round |-> round, distance |-> result.finalDistance,
        rawDistance |-> result.raw, multiplier |-> result.multiplier,
        landingGrade |-> landing.grade, wind |-> wind, counted |-> FALSE] :
         result \in calculateScore(rawDist, landing.multiplier) }

\* The round result handleLand appends: one for each result of
\* calculateScore.
roundResult(round, state, landing, wind) ==
  LET rawDist == IF state = NoFlight THEN 0
                 ELSE Max(0, ((state.x - RAMP_LIP_X * 1000) * 1000)
                               \div PIXELS_PER_METRE_MILLI)
  IN { [round |-> round, distance |-> result.finalDistance,
        rawDistance |-> result.raw, multiplier |-> result.multiplier,
        landingGrade |-> landing.grade, wind |-> wind, counted |-> FALSE] :
         result \in calculateScore(rawDist, landing.multiplier) }

-----------------------------------------------------------------------------
(* AISkiJumpGame: the state after mount *)

NoTimers == [intro |-> FALSE, autoLaunch |-> FALSE, landing |-> 0, score |-> FALSE]

\* The state after mount of a game built with one of configs.
InitGameWith(budget, ticks, configs) ==
  /\ screen = "TITLE" /\ currentRound = 0 /\ scores = << >>
  /\ currentWind = 0 /\ flightProgress = 0
  /\ finalScores = << >> /\ totalScore = 0 /\ finalGrade = 0
  /\ isNewRecord = FALSE
  /\ storage \in [best : {0}, gamesPlayed : {0}, tutorialSeen : BOOLEAN]
  /\ flightState = NoFlight /\ flightTotalTimeEst = 3 * 60
  /\ launchVelRef = NoVel
  /\ animFrameRef = "null" /\ rafQueue = NoFrames /\ timers = NoTimers
  /\ elapsed = 0 /\ autoLaunchDue = 0
  /\ launchTimer = [launchedRef |-> FALSE, startTimeRef |-> FALSE,
                    listening |-> FALSE]
  /\ landingTimer = [landedRef |-> FALSE, listening |-> FALSE]
  /\ effScreen = "TITLE" /\ pending = "none"
  /\ lastLaunch = NoLaunch /\ launchCalls = 0 /\ landCalls = 0
  /\ absorbed = 0
  /\ inputsLeft = budget
  /\ frameTicks \in ticks
  /\ landedCalls = 0
  /\ config \in configs

InitGame(budget, ticks) == InitGameWith(budget, ticks, {ShippedConfig})

Init == InitGame(MaxGameInputs, GameFrameTicks)

\* setScreen(s) from a handler run by an input ("sync") or by a timer or
\* frame ("async"); setting the current value schedules nothing.
\* React drops a state update of a component that is unmounted.
setScreen(s, mode) ==
  IF effScreen = "UNMOUNTED"
  THEN UNCHANGED << screen, pending >>
  ELSE /\ screen' = s
       /\ pending' = IF s = screen THEN pending ELSE mode

\* generateWind: the draws the model follows.
generateWind == Winds

-----------------------------------------------------------------------------
(* Handlers of the orchestrator *)

\* handleLaunch without setFlightProgress(0).
handleLaunchKeepsProgress(payload, mode) ==
  /\ rafQueue' = cancelFrames(rafQueue, {animFrameRef})
  /\ animFrameRef' = "null"
  /\ \E vel \in calculateLaunchVelocity(payload.grade, currentWind) :
       /\ flightState' = createFlightState(vel)
       /\ flightTotalTimeEst' = EstimateFlightTime(vel)
       /\ launchVelRef' = vel
  /\ UNCHANGED flightProgress
  /\ setScreen("FLIGHT", mode)
  /\ lastLaunch' = payload
  /\ launchCalls' = launchCalls + 1

\* handleLaunchFrom that runs the estimation loop on the state it has stored
\* in flightStateRef.
handleLaunchFromShared(vel, payload, mode) ==
  /\ rafQueue' = cancelFrames(rafQueue, {animFrameRef})
  /\ animFrameRef' = "null"
  /\ flightState' = Steps(createFlightState(vel), 10 * 60)
  /\ flightTotalTimeEst' = EstimateFlightTime(vel)
  /\ launchVelRef' = vel
  /\ flightProgress' = 0
  /\ setScreen("FLIGHT", mode)
  /\ lastLaunch' = payload
  /\ launchCalls' = launchCalls + 1

\* handleLaunch from the point where calculateLaunchVelocity has returned
\* vel: the live state and the state of the estimation loop are two objects.
handleLaunchFrom(vel, payload, mode) ==
  /\ rafQueue' = cancelFrames(rafQueue, {animFrameRef})
  /\ animFrameRef' = "null"
  /\ flightState' = createFlightState(vel)
  /\ flightTotalTimeEst' = EstimateFlightTime(vel)
  /\ launchVelRef' = vel
  /\ flightProgress' = 0
  /\ setScreen("FLIGHT", mode)
  /\ lastLaunch' = payload
  /\ launchCalls' = launchCalls + 1

handleLaunch(payload, mode) ==
  \E vel \in calculateLaunchVelocity(payload.grade, currentWind) :
    handleLaunchFrom(vel, payload, mode)

\* handleLand that stores a wind drawn anew on the round result.
handleLandFreshWind(landing, mode, tm) ==
  /\ rafQueue' = cancelFrames(rafQueue, {animFrameRef})
  /\ animFrameRef' = "null"
  /\ \E w \in generateWind :
       \E result \in roundResult(currentRound, flightState, landing, w) :
         scores' = Append(scores, result)
  /\ setScreen("LANDING", mode)
  /\ timers' = [tm EXCEPT !.landing = @ + 1]
  /\ landCalls' = landCalls + 1

\* handleLand that leaves the frame in animFrameRef requested.
handleLandNoCancel(landing, mode, tm) ==
  /\ UNCHANGED << rafQueue, animFrameRef >>
  /\ \E result \in roundResult(currentRound, flightState, landing, currentWind) :
       scores' = Append(scores, result)
  /\ setScreen("LANDING", mode)
  /\ timers' = [tm EXCEPT !.landing = @ + 1]
  /\ landCalls' = landCalls + 1

handleLand(landing, mode, tm) ==
  /\ rafQueue' = cancelFrames(rafQueue, {animFrameRef})
  /\ animFrameRef' = "null"
  /\ \E result \in roundResult(currentRound, flightState, landing, currentWind) :
       scores' = Append(scores, result)
  /\ setScreen("LANDING", mode)
  /\ timers' = [tm EXCEPT !.landing = @ + 1]
  /\ landCalls' = landCalls + 1

\* doLaunch without the launchedRef latch: it neither tests nor sets it.
doLaunchNoLatch(forceGrade, mode, tm) ==
  LET grade == IF forceGrade # "" THEN forceGrade
               ELSE IF launchTimer.startTimeRef
                    THEN launchGradeFromError(Abs(elapsed - APPROACH_DURATION))
                    ELSE "miss"
  IN /\ UNCHANGED launchTimer
     /\ timers' = [tm EXCEPT !.autoLaunch = FALSE]
     /\ handleLaunch(buildLaunchPayload(grade), mode)

\* doLaunch of the launch timer; tm is the timer table the caller leaves.
doLaunch(forceGrade, mode, tm) ==
  IF launchTimer.launchedRef
  THEN /\ timers' = tm
       /\ UNCHANGED << launchTimer, rafQueue, animFrameRef, flightState,
                       flightTotalTimeEst, launchVelRef, flightProgress, screen, pending,
                       lastLaunch, launchCalls >>
  ELSE LET grade == IF forceGrade # "" THEN forceGrade
                    ELSE IF launchTimer.startTimeRef
                         THEN launchGradeFromError(Abs(elapsed - APPROACH_DURATION))
                         ELSE "miss"
       IN /\ launchTimer' = [launchTimer EXCEPT !.launchedRef = TRUE]
          /\ timers' = [tm EXCEPT !.autoLaunch = FALSE]
          /\ handleLaunch(buildLaunchPayload(grade), mode)

\* doLand without the landedRef latch: it neither tests nor sets it.
doLandNoLatch(forceGrade, mode) ==
  /\ UNCHANGED landingTimer
  /\ handleLand(doLandResult(forceGrade, flightProgress, flightTotalTimeEst),
                mode, timers)

\* doLand of the landing timer.
doLand(forceGrade, mode) ==
  IF landingTimer.landedRef
  THEN UNCHANGED << landingTimer, rafQueue, animFrameRef, scores, screen,
                    pending, timers, landCalls >>
  ELSE /\ landingTimer' = [landingTimer EXCEPT !.landedRef = TRUE]
       /\ handleLand(doLandResult(forceGrade, flightProgress, flightTotalTimeEst),
                     mode, timers)

\* handleStart, in a session that completes at most limit games.
handleStartWithin(limit) ==
  /\ screen = "TITLE" /\ effScreen = "TITLE" /\ pending = "none"
  /\ storage.gamesPlayed < limit
  /\ currentRound' = 0 /\ scores' = << >> /\ finalScores' = << >>
  /\ totalScore' = 0 /\ finalGrade' = 0 /\ isNewRecord' = FALSE
  /\ IF ~storage.tutorialSeen
     THEN /\ setScreen("TUTORIAL", "sync")
          /\ UNCHANGED currentWind
     ELSE /\ currentWind' \in generateWind
          /\ setScreen("ROUND_INTRO", "sync")
  /\ UNCHANGED << flightProgress, storage, flightState, flightTotalTimeEst, launchVelRef,
                  animFrameRef, rafQueue, timers, elapsed, autoLaunchDue,
                  launchTimer, landingTimer, effScreen, lastLaunch,
                  launchCalls, landCalls, inputsLeft, frameTicks, landedCalls, config,
                  absorbed >>

handleStart == handleStartWithin(MaxGames)

\* handleTutorialDismiss without lsSet(LS_TUTORIAL, true).
handleTutorialDismissNoFlag ==
  /\ screen = "TUTORIAL" /\ effScreen = "TUTORIAL" /\ pending = "none"
  /\ currentWind' \in generateWind
  /\ setScreen("ROUND_INTRO", "sync")
  /\ UNCHANGED << currentRound, scores, flightProgress, finalScores,
                  totalScore, finalGrade, isNewRecord, flightState,
                  flightTotalTimeEst, launchVelRef, animFrameRef, rafQueue, timers, elapsed,
                  autoLaunchDue, launchTimer, landingTimer, effScreen,
                  lastLaunch, launchCalls, landCalls, inputsLeft, frameTicks,
                  landedCalls, config, absorbed, storage >>

handleTutorialDismiss ==
  /\ screen = "TUTORIAL" /\ effScreen = "TUTORIAL" /\ pending = "none"
  /\ storage' = [storage EXCEPT !.tutorialSeen = TRUE]
  /\ currentWind' \in generateWind
  /\ setScreen("ROUND_INTRO", "sync")
  /\ UNCHANGED << currentRound, scores, flightProgress, finalScores,
                  totalScore, finalGrade, isNewRecord, flightState,
                  flightTotalTimeEst, launchVelRef, animFrameRef, rafQueue, timers, elapsed,
                  autoLaunchDue, launchTimer, landingTimer, effScreen,
                  lastLaunch, launchCalls, landCalls, inputsLeft, frameTicks, landedCalls, config,
                  absorbed >>

-----------------------------------------------------------------------------
(* Commit: the cleanups of the effects of the old screen, then the setups  *)
(* of the effects of the new one.                                          *)

Commit ==
  /\ pending # "none"
  /\ LET old == effScreen
         new == screen
         \* cleanups: the orchestrator's loops cancel the id in animFrameRef,
         \* the launch timer cancels its own frame and its timers
         rafCleaned ==
           cancelFrames(rafQueue,
                        (IF old \in {"APPROACH", "FLIGHT"}
                         THEN {animFrameRef} ELSE {})
                          \cup (IF old = "APPROACH" THEN {"launchTick"} ELSE {}))
         timersCleaned ==
           [timers EXCEPT
              !.intro = IF old = "ROUND_INTRO" THEN FALSE ELSE @,
              !.autoLaunch = IF old = "APPROACH" THEN FALSE ELSE @,
              !.score = IF old = "SCORE_DISPLAY" THEN FALSE ELSE @]
     IN /\ rafQueue' =
             requestFrames(rafCleaned,
                           (IF new = "APPROACH"
                            THEN {"approachTick", "launchTick"} ELSE {})
                             \cup (IF new = "FLIGHT" /\ flightState # NoFlight
                                   THEN {"flightTick"} ELSE {}))
        /\ animFrameRef' =
             IF new = "APPROACH" THEN "approachTick"
             ELSE IF new = "FLIGHT" /\ flightState # NoFlight THEN "flightTick"
             ELSE animFrameRef
        /\ timers' =
             [timersCleaned EXCEPT
                !.intro = IF new = "ROUND_INTRO" THEN TRUE ELSE @,
                !.score = IF new = "SCORE_DISPLAY" THEN TRUE ELSE @]
        /\ elapsed' = IF new = "APPROACH" THEN 0 ELSE elapsed
        /\ launchTimer' =
             IF new = "APPROACH"
             THEN [launchedRef |-> FALSE, startTimeRef |-> TRUE,
                   listening |-> TRUE]
             ELSE IF old = "APPROACH"
             THEN [launchedRef |-> FALSE, startTimeRef |-> FALSE,
                   listening |-> FALSE]
             ELSE launchTimer
        /\ landingTimer' =
             IF new = "FLIGHT"
             THEN [landedRef |-> FALSE, listening |-> TRUE]
             ELSE IF old = "FLIGHT"
             THEN [landedRef |-> FALSE, listening |-> FALSE]
             ELSE landingTimer
        /\ launchCalls' = IF new = "APPROACH" THEN 0 ELSE launchCalls
        /\ landCalls' = IF new = "FLIGHT" THEN 0 ELSE landCalls
  /\ effScreen' = screen
  /\ pending' = "none"
  /\ absorbed' = 0
  /\ UNCHANGED << screen, currentRound, scores, currentWind, flightProgress,
                  finalScores, totalScore, finalGrade, isNewRecord, storage,
                  flightState, flightTotalTimeEst, launchVelRef, autoLaunchDue, lastLaunch,
                  inputsLeft, frameTicks, landedCalls, config >>

\* The parent unmounts the game: the cleanups of the effects in place run
\* (those of the screen's loops and timers, of the launch and landing
\* timers, and the unmount cleanup that cancels the frame in animFrameRef);
\* a render that was waiting is dropped.  The timer of handleLand has no
\* cleanup: its handle is not kept.
Unmount ==
  /\ effScreen # "UNMOUNTED"
  /\ LET old == effScreen
     IN /\ rafQueue' =
             cancelFrames(rafQueue,
                          {animFrameRef}
                            \cup (IF old = "APPROACH" THEN {"launchTick"} ELSE {}))
        /\ timers' =
             [timers EXCEPT
                !.intro = IF old = "ROUND_INTRO" THEN FALSE ELSE @,
                !.autoLaunch = IF old = "APPROACH" THEN FALSE ELSE @,
                !.score = IF old = "SCORE_DISPLAY" THEN FALSE ELSE @]
  /\ launchTimer' = [launchTimer EXCEPT !.listening = FALSE]
  /\ landingTimer' = [landingTimer EXCEPT !.listening = FALSE]
  /\ effScreen' = "UNMOUNTED"
  /\ pending' = "none"
  /\ UNCHANGED << screen, currentRound, scores, currentWind, flightProgress,
                  finalScores, totalScore, finalGrade, isNewRecord, storage,
                  flightState, flightTotalTimeEst, launchVelRef, animFrameRef, elapsed,
                  autoLaunchDue, lastLaunch, launchCalls, landCalls, absorbed,
                  inputsLeft, frameTicks, landedCalls, config >>

-----------------------------------------------------------------------------
(* Timers and frames *)

\* The ROUND_INTRO timer: setScreen('APPROACH').
IntroTimer ==
  /\ pending = "none" /\ timers.intro
  /\ timers' = [timers EXCEPT !.intro = FALSE]
  /\ setScreen("APPROACH", "async")
  /\ UNCHANGED << currentRound, scores, currentWind, flightProgress,
                  finalScores, totalScore, finalGrade, isNewRecord, storage,
                  flightState, flightTotalTimeEst, launchVelRef, animFrameRef, rafQueue,
                  elapsed, autoLaunchDue, launchTimer, landingTimer, effScreen,
                  lastLaunch, launchCalls, landCalls, inputsLeft, frameTicks, landedCalls, config,
                  absorbed >>

\* ApproachFrame with a launch-timer tick that never starts the auto-launch
\* timer.
ApproachFrameNoTimer ==
  /\ pending = "none"
  /\ Queued \cap {"approachTick", "launchTick"} # {}
  /\ elapsed' = elapsed + ApproachStep
  /\ LET keepA == "approachTick" \in Queued
                    /\ elapsed' < APPROACH_DURATION + 700
         keepL == "launchTick" \in Queued /\ elapsed' < APPROACH_DURATION
     IN /\ rafQueue' =
             requestFrames(cancelFrames(rafQueue, {"approachTick", "launchTick"}),
                           (IF keepA THEN {"approachTick"} ELSE {})
                             \cup (IF keepL THEN {"launchTick"} ELSE {}))
        /\ animFrameRef' = IF keepA THEN "approachTick" ELSE animFrameRef
  /\ UNCHANGED << screen, currentRound, scores, currentWind, flightProgress,
                  finalScores, totalScore, finalGrade, isNewRecord, storage,
                  flightState, flightTotalTimeEst, launchVelRef, launchTimer, landingTimer,
                  effScreen, pending, lastLaunch, launchCalls, landCalls,
                  inputsLeft, frameTicks, landedCalls, config, timers, autoLaunchDue, absorbed >>

\* One animation frame of the approach: the orchestrator's tick and the
\* launch timer's tick, whichever are requested.
ApproachFrame ==
  /\ pending = "none"
  /\ Queued \cap {"approachTick", "launchTick"} # {}
  /\ elapsed' = elapsed + ApproachStep
  /\ LET keepA == "approachTick" \in Queued
                    /\ elapsed' < APPROACH_DURATION + 700
         keepL == "launchTick" \in Queued /\ elapsed' < APPROACH_DURATION
         arm == "launchTick" \in Queued /\ ~keepL
     IN /\ rafQueue' =
             requestFrames(cancelFrames(rafQueue, {"approachTick", "launchTick"}),
                           (IF keepA THEN {"approachTick"} ELSE {})
                             \cup (IF keepL THEN {"launchTick"} ELSE {}))
        /\ animFrameRef' = IF keepA THEN "approachTick" ELSE animFrameRef
        /\ timers' = IF arm THEN [timers EXCEPT !.autoLaunch = TRUE] ELSE timers
        /\ autoLaunchDue' = IF arm THEN elapsed' + AUTO_LAUNCH_DELAY
                            ELSE autoLaunchDue
  /\ UNCHANGED << screen, currentRound, scores, currentWind, flightProgress,
                  finalScores, totalScore, finalGrade, isNewRecord, storage,
                  flightState, flightTotalTimeEst, launchVelRef, launchTimer, landingTimer,
                  effScreen, pending, lastLaunch, launchCalls, landCalls,
                  inputsLeft, frameTicks, landedCalls, config,
                  absorbed >>

\* The auto-launch timer: if (!launchedRef.current) doLaunch('miss').
AutoLaunch ==
  /\ pending = "none" /\ timers.autoLaunch
  /\ elapsed' = Max(elapsed, autoLaunchDue)
  /\ doLaunch("miss", "async", [timers EXCEPT !.autoLaunch = FALSE])
  /\ UNCHANGED << currentRound, scores, currentWind, finalScores, totalScore,
                  finalGrade, isNewRecord, storage, autoLaunchDue,
                  landingTimer, effScreen, landCalls, inputsLeft, frameTicks, landedCalls, config,
                  absorbed >>

\* AutoLandDue without the test of active.
AutoLandDueAnyScreen ==
  /\ ProgressAtLeast(flightProgress, flightTotalTimeEst, AUTO_LAND_PROGRESS_PCT)
  /\ ~landingTimer.landedRef

\* The auto-land effect has work to do: active, progress at the threshold,
\* not landed.
AutoLandDue ==
  /\ effScreen = "FLIGHT"
  /\ ProgressAtLeast(flightProgress, flightTotalTimeEst, AUTO_LAND_PROGRESS_PCT)
  /\ ~landingTimer.landedRef

\* One animation frame of the flight: tick of the FLIGHT loop.  The render
\* of the previous frame and its effects are over when the next frame runs.
FlightFrame ==
  /\ pending = "none"
  /\ ~AutoLandDue
  /\ "flightTick" \in Queued
  /\ IF flightState = NoFlight \/ flightState.landed
     THEN /\ rafQueue' = cancelFrames(rafQueue, {"flightTick"})
          /\ UNCHANGED << flightState, flightProgress, animFrameRef >>
     ELSE LET s == simulateFlight(flightState, frameTicks)
          IN /\ flightState' = s
             /\ flightProgress' = Min(s.flightTime, flightTotalTimeEst)
             /\ rafQueue' = IF s.landed THEN cancelFrames(rafQueue, {"flightTick"})
                            ELSE rafQueue
             /\ animFrameRef' = IF s.landed THEN animFrameRef ELSE "flightTick"
  /\ UNCHANGED << screen, currentRound, scores, currentWind, finalScores,
                  totalScore, finalGrade, isNewRecord, storage,
                  flightTotalTimeEst, launchVelRef, timers, elapsed, autoLaunchDue,
                  launchTimer, landingTimer, effScreen, pending, lastLaunch,
                  launchCalls, landCalls, inputsLeft, frameTicks, landedCalls, config,
                  absorbed >>

\* The auto-land effect of the landing timer.
AutoLand ==
  /\ pending = "none"
  /\ AutoLandDue
  /\ doLand("crash", "async")
  /\ UNCHANGED << currentRound, currentWind, flightProgress, finalScores,
                  totalScore, finalGrade, isNewRecord, storage, flightState,
                  flightTotalTimeEst, launchVelRef, elapsed, autoLaunchDue, launchTimer,
                  effScreen, lastLaunch, launchCalls, inputsLeft, frameTicks, landedCalls, config,
                  absorbed >>

\* The 550 ms timer of handleLand: setScreen('SCORE_DISPLAY').
LandingTimeout ==
  /\ pending = "none" /\ timers.landing > 0
  /\ timers' = [timers EXCEPT !.landing = @ - 1]
  /\ setScreen("SCORE_DISPLAY", "async")
  /\ UNCHANGED << currentRound, scores, currentWind, flightProgress,
                  finalScores, totalScore, finalGrade, isNewRecord, storage,
                  flightState, flightTotalTimeEst, launchVelRef, animFrameRef, rafQueue,
                  elapsed, autoLaunchDue, launchTimer, landingTimer, effScreen,
                  lastLaunch, launchCalls, landCalls, inputsLeft, frameTicks, landedCalls, config,
                  absorbed >>

\* finishGame that stores the total of every game as the best score.
finishGameAlwaysStores ==
  LET ordered == finishOrdered(scores)
      total == finishTotal(ordered)
      newRecord == total > storage.best
  IN /\ scores' = ordered
     /\ storage' = [storage EXCEPT !.best = total, !.gamesPlayed = @ + 1]
     /\ finalScores' = ordered
     /\ totalScore' = total
     /\ finalGrade' = getGrade(total)
     /\ isNewRecord' = newRecord
     /\ setScreen("RESULTS", "async")

\* finishGame whose updater runs twice: the games counter is read and
\* written twice.
finishGameCountsTwice ==
  LET ordered == finishOrdered(scores)
      total == finishTotal(ordered)
      newRecord == total > storage.best
  IN /\ scores' = ordered
     /\ storage' = [storage EXCEPT
                      !.best = IF newRecord THEN total ELSE @,
                      !.gamesPlayed = @ + 2]
     /\ finalScores' = ordered
     /\ totalScore' = total
     /\ finalGrade' = getGrade(total)
     /\ isNewRecord' = newRecord
     /\ setScreen("RESULTS", "async")

\* finishGame: the counted marks, the total, the grade, the record and the
\* games counter, then setScreen('RESULTS').
finishGame ==
  LET ordered == finishOrdered(scores)
      total == finishTotal(ordered)
      newRecord == total > storage.best
  IN /\ scores' = ordered
     /\ storage' = [storage EXCEPT
                      !.best = IF newRecord THEN total ELSE @,
                      !.gamesPlayed = @ + 1]
     /\ finalScores' = ordered
     /\ totalScore' = total
     /\ finalGrade' = getGrade(total)
     /\ isNewRecord' = newRecord
     /\ setScreen("RESULTS", "async")

\* ScoreTimer with "nextRound > ROUNDS_PER_GAME" for the last-round test.
ScoreTimerOneMore ==
  /\ pending = "none" /\ timers.score
  /\ timers' = [timers EXCEPT !.score = FALSE]
  /\ LET nextRound == currentRound + 1
     IN IF nextRound > ROUNDS_PER_GAME
        THEN /\ finishGame
             /\ UNCHANGED << currentRound, currentWind >>
        ELSE /\ currentRound' = nextRound
             /\ currentWind' \in generateWind
             /\ setScreen("ROUND_INTRO", "async")
             /\ UNCHANGED << scores, storage, finalScores, totalScore,
                             finalGrade, isNewRecord >>
  /\ UNCHANGED << flightProgress, flightState, flightTotalTimeEst, launchVelRef,
                  animFrameRef, rafQueue, elapsed, autoLaunchDue, launchTimer,
                  landingTimer, effScreen, lastLaunch, launchCalls, landCalls,
                  inputsLeft, frameTicks, landedCalls, config, absorbed >>

\* The SCORE_DISPLAY timer: the next round, or finishGame after the last.
ScoreTimer ==
  /\ pending = "none" /\ timers.score
  /\ timers' = [timers EXCEPT !.score = FALSE]
  /\ LET nextRound == currentRound + 1
     IN IF nextRound >= ROUNDS_PER_GAME
        THEN /\ finishGame
             /\ UNCHANGED << currentRound, currentWind >>
        ELSE /\ currentRound' = nextRound
             /\ currentWind' \in generateWind
             /\ setScreen("ROUND_INTRO", "async")
             /\ UNCHANGED << scores, storage, finalScores, totalScore,
                             finalGrade, isNewRecord >>
  /\ UNCHANGED << flightProgress, flightState, flightTotalTimeEst, launchVelRef,
                  animFrameRef, rafQueue, elapsed, autoLaunchDue, launchTimer,
                  landingTimer, effScreen, lastLaunch, launchCalls, landCalls,
                  inputsLeft, frameTicks, landedCalls, config,
                  absorbed >>

\* handlePlayAgain that leaves flightStateRef and the flight progress alone.
handlePlayAgainKeepsFlight ==
  /\ screen = "RESULTS" /\ effScreen = "RESULTS" /\ pending = "none"
  /\ launchVelRef' = NoVel
  /\ setScreen("TITLE", "sync")
  /\ UNCHANGED << currentRound, scores, currentWind, finalScores, totalScore,
                  finalGrade, isNewRecord, storage, flightTotalTimeEst,
                  animFrameRef, rafQueue, timers, elapsed, autoLaunchDue,
                  launchTimer, landingTimer, effScreen, lastLaunch,
                  launchCalls, landCalls, inputsLeft, frameTicks, landedCalls, config,
                  absorbed, flightState, flightProgress >>

handlePlayAgain ==
  /\ screen = "RESULTS" /\ effScreen = "RESULTS" /\ pending = "none"
  /\ flightState' = NoFlight
  /\ flightProgress' = 0
  /\ launchVelRef' = NoVel
  /\ setScreen("TITLE", "sync")
  /\ UNCHANGED << currentRound, scores, currentWind, finalScores, totalScore,
                  finalGrade, isNewRecord, storage, flightTotalTimeEst,
                  animFrameRef, rafQueue, timers, elapsed, autoLaunchDue,
                  launchTimer, landingTimer, effScreen, lastLaunch,
                  launchCalls, landCalls, inputsLeft, frameTicks, landedCalls, config,
                  absorbed >>

-----------------------------------------------------------------------------
(* Player input: a keydown or pointerdown event on window *)

\* handleInput of the launch timer.
launchHandleInput(kind) ==
  IF kind \in {"pointerdown", "Space"}
       /\ ~launchTimer.launchedRef /\ launchTimer.startTimeRef
  THEN /\ doLaunch("", "sync", timers)
       /\ UNCHANGED absorbed
  ELSE /\ absorbed' = IF kind \in {"pointerdown", "Space"}
                           /\ launchTimer.launchedRef
                      THEN absorbed + 1 ELSE absorbed
       /\ UNCHANGED << launchTimer, rafQueue, animFrameRef, flightState,
                       flightTotalTimeEst, launchVelRef, flightProgress, screen, pending,
                       lastLaunch, launchCalls, timers >>

\* landingHandleInput without the boost zone: a tap or Space lands at any
\* progress.
landingHandleInputNoBoost(kind) ==
  LET landingZone == kind \in {"pointerdown", "Space"}
  IN IF landingZone /\ ~landingTimer.landedRef
     THEN /\ doLand("", "sync")
          /\ UNCHANGED absorbed
     ELSE /\ absorbed' = IF landingZone THEN absorbed + 1 ELSE absorbed
          /\ UNCHANGED << landingTimer, rafQueue, animFrameRef, scores, screen,
                          pending, timers, landCalls >>

\* handleInput of the landing timer: the boost zone below half of the
\* flight, arrows ignored after it, a tap or Space lands.
landingHandleInput(kind) ==
  LET landingZone ==
        /\ ProgressAtLeast(flightProgress, flightTotalTimeEst, BOOST_ZONE_PCT)
        /\ kind \in {"pointerdown", "Space"}
  IN IF landingZone /\ ~landingTimer.landedRef
     THEN /\ doLand("", "sync")
          /\ UNCHANGED absorbed
     ELSE /\ absorbed' = IF landingZone THEN absorbed + 1 ELSE absorbed
          /\ UNCHANGED << landingTimer, rafQueue, animFrameRef, scores, screen,
                          pending, timers, landCalls >>

\* Input with the landing timer's listener attached in every phase.
InputLandingAlways(kind) ==
  /\ pending # "sync"
  /\ inputsLeft > 0
  /\ inputsLeft' = inputsLeft - 1
  /\ IF launchTimer.listening
     THEN /\ launchHandleInput(kind)
          /\ UNCHANGED << landingTimer, scores, landCalls >>
     ELSE /\ landingHandleInput(kind)
          /\ UNCHANGED << launchTimer, flightState, flightTotalTimeEst, launchVelRef,
                          flightProgress, lastLaunch, launchCalls >>
  /\ UNCHANGED << currentRound, currentWind, finalScores, totalScore,
                  finalGrade, isNewRecord, storage, elapsed, autoLaunchDue,
                  effScreen, frameTicks, landedCalls, config >>

\* The window listeners: the launch timer's while it is active, the landing
\* timer's while it is active; an event no listener takes changes nothing.
Input(kind) ==
  /\ pending # "sync"
  /\ inputsLeft > 0
  /\ inputsLeft' = inputsLeft - 1
  /\ IF launchTimer.listening
     THEN /\ launchHandleInput(kind)
          /\ UNCHANGED << landingTimer, scores, landCalls >>
     ELSE IF landingTimer.listening
     THEN /\ landingHandleInput(kind)
          /\ UNCHANGED << launchTimer, flightState, flightTotalTimeEst, launchVelRef,
                          flightProgress, lastLaunch, launchCalls >>
     ELSE UNCHANGED << launchTimer, rafQueue, animFrameRef, flightState,
                       flightTotalTimeEst, launchVelRef, flightProgress, screen, pending,
                       lastLaunch, launchCalls, timers, landingTimer, scores,
                       landCalls, absorbed >>
  /\ UNCHANGED << currentRound, currentWind, finalScores, totalScore,
                  finalGrade, isNewRecord, storage, elapsed, autoLaunchDue,
                  effScreen, frameTicks, landedCalls, config >>

-----------------------------------------------------------------------------
(* Specifications *)

\* What runs without the player: commits, timers, frames, effects.
AutoNext ==
  \/ Commit
  \/ IntroTimer
  \/ ApproachFrame
  \/ AutoLaunch
  \/ FlightFrame
  \/ AutoLand
  \/ LandingTimeout
  \/ ScoreTimer

\* The moments at which the player of a whole game presses: the optimal
\* moment of the approach, and the first frame of the flight at or past
\* TapProgressPct.
TapMoment ==
  \/ launchTimer.listening /\ elapsed = APPROACH_DURATION
  \/ /\ landingTimer.listening
     /\ ProgressAtLeast(flightProgress, flightTotalTimeEst, TapProgressPct)
     /\ ~ProgressAtLeast(flightProgress - frameTicks, flightTotalTimeEst,
                         TapProgressPct)

TimedInput(kind) == TapMoment /\ Input(kind)

\* Whole games.
Next ==
  \/ handleStart
  \/ handleTutorialDismiss
  \/ Commit
  \/ IntroTimer
  \/ ApproachFrame
  \/ AutoLaunch
  \/ FlightFrame
  \/ AutoLand
  \/ LandingTimeout
  \/ ScoreTimer
  \/ handlePlayAgain
  \/ \E kind \in InputKinds : TimedInput(kind)

Spec == Init /\ [][Next]_vars

\* One round, from the title to the score display, with more inputs.
InitRound == InitGame(MaxInputs, FrameTickChoices)

NextRound ==
  \/ handleStart
  \/ handleTutorialDismiss
  \/ Commit
  \/ IntroTimer
  \/ ApproachFrame
  \/ AutoLaunch
  \/ FlightFrame
  \/ AutoLand
  \/ LandingTimeout
  \/ \E kind \in InputKinds : Input(kind)

SpecRound == InitRound /\ [][NextRound]_vars

\* One round without any input after the start: the timers, frames,
\* commits and effects are the only steps, and they are taken when they can.
InitAuto == InitGame(0, FrameTickChoices)

RoundAutoNext ==
  \/ Commit
  \/ IntroTimer
  \/ ApproachFrame
  \/ AutoLaunch
  \/ FlightFrame
  \/ AutoLand
  \/ LandingTimeout

NextAuto ==
  \/ handleStart
  \/ handleTutorialDismiss
  \/ Commit
  \/ IntroTimer
  \/ ApproachFrame
  \/ AutoLaunch
  \/ FlightFrame
  \/ AutoLand
  \/ LandingTimeout

SpecAuto == InitAuto /\ [][NextAuto]_vars /\ WF_vars(RoundAutoNext)

\* One round whose player presses only out of phase: during ROUND_INTRO,
\* LANDING or SCORE_DISPLAY, or between a change of the screen and its commit.
QuietScreens == {"ROUND_INTRO", "LANDING", "SCORE_DISPLAY"}

OutOfPhase ==
  \/ screen \in QuietScreens
  \/ effScreen \in QuietScreens
  \/ screen # effScreen

OutOfPhaseInput(kind) == OutOfPhase /\ Input(kind)

NextOutOfPhase ==
  \/ handleStart
  \/ handleTutorialDismiss
  \/ Commit
  \/ IntroTimer
  \/ ApproachFrame
  \/ AutoLaunch
  \/ FlightFrame
  \/ AutoLand
  \/ LandingTimeout
  \/ \E kind \in InputKinds : OutOfPhaseInput(kind)

SpecOutOfPhase == InitRound /\ [][NextOutOfPhase]_vars

\* One round whose player presses only during the flight.
FlightInput(kind) == screen = "FLIGHT" /\ effScreen = "FLIGHT" /\ Input(kind)

NextFlightInput ==
  \/ handleStart
  \/ handleTutorialDismiss
  \/ Commit
  \/ IntroTimer
  \/ ApproachFrame
  \/ AutoLaunch
  \/ FlightFrame
  \/ AutoLand
  \/ LandingTimeout
  \/ \E kind \in InputKinds : FlightInput(kind)

SpecFlightInput == InitRound /\ [][NextFlightInput]_vars

\* Flights on their own: simulateFlight stepped from the launches of the
\* game and from launches it never makes (a gale from either side, a
\* vertical shot, a dive, a start at rest), at the display's frame interval,
\* and called again after the landing.  Velocities in 1/1000 px/s.
ExtremeVelocities ==
  { [vx |-> a, vy |-> b] : a \in {-300000, 0, 6000000},
                           b \in {-1000000, 0, 2000000} }

FlightSamples ==
  ExtremeVelocities
    \cup { [vx |-> v.vx, vy |-> v.vy] :
             v \in UNION { calculateLaunchVelocity(g, w) :
                             g \in LaunchGrades, w \in Winds } }

InitFlight ==
  /\ screen = "FLIGHT" /\ effScreen = "FLIGHT" /\ pending = "none"
  /\ currentRound = 0 /\ scores = << >> /\ currentWind = 0
  /\ flightProgress = 0
  /\ finalScores = << >> /\ totalScore = 0 /\ finalGrade = 0
  /\ isNewRecord = FALSE
  /\ storage = [best |-> 0, gamesPlayed |-> 0, tutorialSeen |-> TRUE]
  /\ \E vel \in FlightSamples : flightState = createFlightState(vel)
  /\ flightTotalTimeEst = 3 * 60
  /\ launchVelRef = NoVel
  /\ animFrameRef = "null" /\ rafQueue = NoFrames /\ timers = NoTimers
  /\ elapsed = 0 /\ autoLaunchDue = 0
  /\ launchTimer = [launchedRef |-> FALSE, startTimeRef |-> FALSE,
                    listening |-> FALSE]
  /\ landingTimer = [landedRef |-> FALSE, listening |-> FALSE]
  /\ lastLaunch = NoLaunch /\ launchCalls = 0 /\ landCalls = 0
  /\ absorbed = 0 /\ inputsLeft = 0
  /\ frameTicks \in FrameTickChoices
  /\ landedCalls = 0
  /\ config = ShippedConfig

\* One call simulateFlight(state, startPos, dt).
SimStep ==
  /\ flightState.landed => landedCalls < MaxLandedCalls
  /\ flightState' = simulateFlight(flightState, frameTicks)
  /\ landedCalls' = IF flightState.landed THEN landedCalls + 1 ELSE landedCalls
  /\ UNCHANGED << screen, currentRound, scores, currentWind, flightProgress,
                  finalScores, totalScore, finalGrade, isNewRecord, storage,
                  flightTotalTimeEst, launchVelRef, animFrameRef, rafQueue, timers, elapsed,
                  autoLaunchDue, launchTimer, landingTimer, effScreen, pending,
                  lastLaunch, launchCalls, landCalls, absorbed, inputsLeft,
                  frameTicks, config >>

NextFlight == SimStep

SpecFlight == InitFlight /\ [][NextFlight]_vars

\* An approach the player ends with one input at a drawn moment: the state
\* when the event arrives, performance.now() - start being the drawn time.
\* The timing errors drawn sit on and around the thresholds of TIMING.
TapErrors == {0, 50, 99, 100, 101, 219, 220, 221, 399, 400, 401, 450}

TapTimes ==
  { APPROACH_DURATION - e : e \in TapErrors }
    \cup { APPROACH_DURATION + e : e \in TapErrors }

InitTap ==
  /\ screen = "APPROACH" /\ effScreen = "APPROACH" /\ pending = "none"
  /\ currentRound = 0 /\ scores = << >>
  /\ currentWind \in generateWind
  /\ flightProgress = 0
  /\ finalScores = << >> /\ totalScore = 0 /\ finalGrade = 0
  /\ isNewRecord = FALSE
  /\ storage = [best |-> 0, gamesPlayed |-> 0, tutorialSeen |-> TRUE]
  /\ flightState = NoFlight /\ flightTotalTimeEst = 3 * 60
  /\ launchVelRef = NoVel
  /\ animFrameRef = "approachTick"
  /\ elapsed \in TapTimes
  /\ rafQueue = requestFrames(NoFrames,
                              IF elapsed < APPROACH_DURATION
                              THEN {"approachTick", "launchTick"}
                              ELSE {"approachTick"})
  /\ timers = [NoTimers EXCEPT !.autoLaunch = elapsed >= APPROACH_DURATION]
  /\ autoLaunchDue = IF elapsed >= APPROACH_DURATION
                     THEN APPROACH_DURATION + AUTO_LAUNCH_DELAY ELSE 0
  /\ launchTimer = [launchedRef |-> FALSE, startTimeRef |-> TRUE,
                    listening |-> TRUE]
  /\ landingTimer = [landedRef |-> FALSE, listening |-> FALSE]
  /\ lastLaunch = NoLaunch /\ launchCalls = 0 /\ landCalls = 0
  /\ absorbed = 0 /\ inputsLeft = MaxGameInputs
  /\ frameTicks \in FrameTickChoices
  /\ landedCalls = 0
  /\ config = ShippedConfig

ApproachInput(kind) == effScreen = "APPROACH" /\ Input(kind)

NextTap ==
  \/ \E kind \in InputKinds : ApproachInput(kind)
  \/ Commit
  \/ FlightFrame
  \/ AutoLand
  \/ LandingTimeout

SpecTap == InitTap /\ [][NextTap]_vars

\* Landings on their own: the flight loop has put the jumper down at a
\* drawn spot and stopped, the progress stands at a drawn value, and the
\* landing is resolved by the auto-land effect or by one input.  LandingSpots
\* are runs past the lip in 1/1000 px: behind the lip, the lip, 1.5 m (a
\* rounding tie under the crash multiplier), 50 m, 100 m, 150 m, 192.1 m and
\* 237.2 m.
LandingSpots == {-5000, 0, 1898, 63250, 126500, 189750, 243000, 300000}
LandingEstimate == 100
LandingProgress == {50, 74, 80, 90, 97, 98}

landedAt(dx) ==
  [x |-> RAMP_LIP_X * 1000 + dx, y |-> getHillY(RAMP_LIP_X * 1000 + dx),
   vx |-> 0, vy |-> 0, landed |-> TRUE, distance |-> MetresOf(dx),
   flightTime |-> LandingEstimate]

InitLand ==
  /\ screen = "FLIGHT" /\ effScreen = "FLIGHT" /\ pending = "none"
  /\ currentRound = 0 /\ scores = << >>
  /\ currentWind \in generateWind
  /\ flightProgress \in LandingProgress
  /\ finalScores = << >> /\ totalScore = 0 /\ finalGrade = 0
  /\ isNewRecord = FALSE
  /\ storage = [best |-> 0, gamesPlayed |-> 0, tutorialSeen |-> TRUE]
  /\ \E dx \in LandingSpots : flightState = landedAt(dx)
  /\ flightTotalTimeEst = LandingEstimate
  /\ launchVelRef \in calculateLaunchVelocity("perfect", currentWind)
  /\ animFrameRef = "flightTick" /\ rafQueue = NoFrames /\ timers = NoTimers
  /\ elapsed = 0 /\ autoLaunchDue = 0
  /\ launchTimer = [launchedRef |-> FALSE, startTimeRef |-> FALSE,
                    listening |-> FALSE]
  /\ landingTimer = [landedRef |-> FALSE, listening |-> TRUE]
  /\ lastLaunch = NoLaunch /\ launchCalls = 1 /\ landCalls = 0
  /\ absorbed = 0 /\ inputsLeft = MaxGameInputs
  /\ frameTicks \in FrameTickChoices
  /\ landedCalls = 0
  /\ config = ShippedConfig

NextLand ==
  \/ \E kind \in InputKinds : FlightInput(kind)
  \/ AutoLand
  \/ Commit
  \/ LandingTimeout

SpecLand == InitLand /\ [][NextLand]_vars

\* One round in a game that its parent may unmount at any moment.
NextUnmount ==
  \/ handleStart
  \/ handleTutorialDismiss
  \/ Commit
  \/ IntroTimer
  \/ ApproachFrame
  \/ AutoLaunch
  \/ FlightFrame
  \/ AutoLand
  \/ LandingTimeout
  \/ \E kind \in InputKinds : Input(kind)
  \/ Unmount

SpecUnmount == InitRound /\ [][NextUnmount]_vars

\* The end of a game on any five results: the state when the score of the
\* last round is on display, with each result the score calculateScore gives
\* one of the sampled landings.
FinishSamples ==
  { << 0, "crash" >>, << 429, "crash" >>, << 714, "crash" >>,
    << 1143, "crash" >>, << 923, "telemark" >>, << 1154, "telemark" >> }

\* The samples are off the rounding ties: calculateScore has one result
\* for each.
sampleResult(round, sample, wind) ==
  LET result == CHOOSE r \in calculateScore(sample[1] * 100,
                                            LANDING_MULT[sample[2]]) : TRUE
  IN [round |-> round, distance |-> result.finalDistance,
      rawDistance |-> result.raw, multiplier |-> result.multiplier,
      landingGrade |-> sample[2], wind |-> wind, counted |-> FALSE]

InitFinish ==
  /\ screen = "SCORE_DISPLAY" /\ effScreen = "SCORE_DISPLAY"
  /\ pending = "none"
  /\ currentRound = ROUNDS_PER_GAME - 1
  /\ currentWind = 0
  /\ \E picks \in [1..ROUNDS_PER_GAME -> FinishSamples] :
       scores = [i \in 1..ROUNDS_PER_GAME |-> sampleResult(i - 1, picks[i], 0)]
  /\ flightProgress = 0
  /\ finalScores = << >> /\ totalScore = 0 /\ finalGrade = 0
  /\ isNewRecord = FALSE
  /\ storage = [best |-> 0, gamesPlayed |-> 0, tutorialSeen |-> TRUE]
  /\ flightState = NoFlight /\ flightTotalTimeEst = 3 * 60
  /\ launchVelRef = NoVel
  /\ animFrameRef = "null" /\ rafQueue = NoFrames
  /\ timers = [NoTimers EXCEPT !.score = TRUE]
  /\ elapsed = 0 /\ autoLaunchDue = 0
  /\ launchTimer = [launchedRef |-> FALSE, startTimeRef |-> FALSE,
                    listening |-> FALSE]
  /\ landingTimer = [landedRef |-> FALSE, listening |-> FALSE]
  /\ lastLaunch = NoLaunch /\ launchCalls = 0 /\ landCalls = 0
  /\ absorbed = 0 /\ inputsLeft = 0
  /\ frameTicks = 1
  /\ landedCalls = 0
  /\ config = ShippedConfig

NextFinish ==
  \/ ScoreTimer
  \/ Commit

SpecFinish == InitFinish /\ [][NextFinish]_vars

\* The end of a game in a browser that has seen games before: as in
\* InitFinish, with the best score localStorage holds drawn from the totals
\* of earlier games (none, 350.0 m, 450.0 m), in 1/10 m.
PreviousBests == {0, 3500, 4500}

InitRecord ==
  /\ screen = "SCORE_DISPLAY" /\ effScreen = "SCORE_DISPLAY"
  /\ pending = "none"
  /\ currentRound = ROUNDS_PER_GAME - 1
  /\ currentWind = 0
  /\ \E picks \in [1..ROUNDS_PER_GAME -> FinishSamples] :
       scores = [i \in 1..ROUNDS_PER_GAME |-> sampleResult(i - 1, picks[i], 0)]
  /\ flightProgress = 0
  /\ finalScores = << >> /\ totalScore = 0 /\ finalGrade = 0
  /\ isNewRecord = FALSE
  /\ storage \in [best : PreviousBests, gamesPlayed : {0}, tutorialSeen : {TRUE}]
  /\ flightState = NoFlight /\ flightTotalTimeEst = 3 * 60
  /\ launchVelRef = NoVel
  /\ animFrameRef = "null" /\ rafQueue = NoFrames
  /\ timers = [NoTimers EXCEPT !.score = TRUE]
  /\ elapsed = 0 /\ autoLaunchDue = 0
  /\ launchTimer = [launchedRef |-> FALSE, startTimeRef |-> FALSE,
                    listening |-> FALSE]
  /\ landingTimer = [landedRef |-> FALSE, listening |-> FALSE]
  /\ lastLaunch = NoLaunch /\ launchCalls = 0 /\ landCalls = 0
  /\ absorbed = 0 /\ inputsLeft = 0
  /\ frameTicks = 1
  /\ landedCalls = 0
  /\ config = ShippedConfig

NextRecord ==
  \/ ScoreTimer
  \/ Commit

SpecRecord == InitRecord /\ [][NextRecord]_vars

\* The end of a game, play again, and the start of the next game: as in
\* InitFinish, with the jumper where the flight of the last round put it
\* down and the progress at which that landing was resolved (the auto-land
\* threshold for a crash, the target of the tap otherwise).  The tutorial
\* flag is stored, as it is from the first round of a game on.
InitAgain ==
  /\ screen = "SCORE_DISPLAY" /\ effScreen = "SCORE_DISPLAY"
  /\ pending = "none"
  /\ currentRound = ROUNDS_PER_GAME - 1
  /\ currentWind \in generateWind
  /\ \E picks \in [1..ROUNDS_PER_GAME -> FinishSamples] :
       /\ scores = [i \in 1..ROUNDS_PER_GAME |->
                      sampleResult(i - 1, picks[i], currentWind)]
       /\ flightState =
            landedAt((picks[ROUNDS_PER_GAME][1] * PIXELS_PER_METRE_MILLI) \div 10)
       /\ flightProgress =
            IF picks[ROUNDS_PER_GAME][2] = "crash"
            THEN (AUTO_LAND_PROGRESS_PCT * LandingEstimate) \div 100
            ELSE ((OPTIMAL_PROGRESS_PCT - TAP_SHIFT_PCT) * LandingEstimate) \div 100
  /\ finalScores = << >> /\ totalScore = 0 /\ finalGrade = 0
  /\ isNewRecord = FALSE
  /\ storage = [best |-> 0, gamesPlayed |-> 0, tutorialSeen |-> TRUE]
  /\ flightTotalTimeEst = LandingEstimate
  /\ launchVelRef \in calculateLaunchVelocity("perfect", currentWind)
  /\ animFrameRef = "flightTick" /\ rafQueue = NoFrames
  /\ timers = [NoTimers EXCEPT !.score = TRUE]
  /\ elapsed = APPROACH_DURATION /\ autoLaunchDue = 0
  /\ launchTimer = [launchedRef |-> FALSE, startTimeRef |-> FALSE,
                    listening |-> FALSE]
  /\ landingTimer = [landedRef |-> FALSE, listening |-> FALSE]
  /\ lastLaunch = buildLaunchPayload("perfect")
  /\ launchCalls = 1 /\ landCalls = 1
  /\ absorbed = 0 /\ inputsLeft = 0
  /\ frameTicks = 1
  /\ landedCalls = 0
  /\ config = ShippedConfig

\* handleStart of the game after the first.
handleStartAgain == handleStartWithin(MaxGames + 1)

NextAgain ==
  \/ ScoreTimer
  \/ Commit
  \/ handlePlayAgain
  \/ handleStartAgain
  \/ IntroTimer

SpecAgain == InitAgain /\ [][NextAgain]_vars

\* SkiJumpScene: the distance markers along the hill, in metres.
DISTANCE_MARKERS == {40, 60, 80, 100, 120, 140, 160, 180, 200}

\* hillPosAtDistance of the scene of the fixed-width hill: dx = metres *
\* HILL_RUN_PX / 170, with HILL_RUN_PX = GAME_W - 10 - RAMP_LIP.x.
hillPosAtDistanceHillRun(metres) ==
  LET dx == (metres * (GAME_W - 10 - RAMP_LIP_X) * 1000) \div 170
  IN [x |-> RAMP_LIP_X * 1000 + dx,
      y |-> RAMP_LIP_Y * 1000 + (dx * LANDING_HILL_SLOPE_PCT) \div 100]

\* hillPosAtDistance: the position along the hill the scene draws for a
\* distance in metres, in 1/1000 px.
hillPosAtDistance(metres) ==
  LET dx == metres * PIXELS_PER_METRE_MILLI
  IN [x |-> RAMP_LIP_X * 1000 + dx,
      y |-> RAMP_LIP_Y * 1000 + (dx * LANDING_HILL_SLOPE_PCT) \div 100]

\* Landings on the markers: as in InitLand, with the jumper put down where
\* the scene draws a distance marker.
InitMarker ==
  /\ screen = "FLIGHT" /\ effScreen = "FLIGHT" /\ pending = "none"
  /\ currentRound = 0 /\ scores = << >>
  /\ currentWind \in generateWind
  /\ flightProgress \in LandingProgress
  /\ finalScores = << >> /\ totalScore = 0 /\ finalGrade = 0
  /\ isNewRecord = FALSE
  /\ storage = [best |-> 0, gamesPlayed |-> 0, tutorialSeen |-> TRUE]
  /\ \E d \in DISTANCE_MARKERS :
       flightState = landedAt(hillPosAtDistance(d).x - RAMP_LIP_X * 1000)
  /\ flightTotalTimeEst = LandingEstimate
  /\ launchVelRef \in calculateLaunchVelocity("perfect", currentWind)
  /\ animFrameRef = "flightTick" /\ rafQueue = NoFrames /\ timers = NoTimers
  /\ elapsed = 0 /\ autoLaunchDue = 0
  /\ launchTimer = [launchedRef |-> FALSE, startTimeRef |-> FALSE,
                    listening |-> FALSE]
  /\ landingTimer = [landedRef |-> FALSE, listening |-> TRUE]
  /\ lastLaunch = NoLaunch /\ launchCalls = 1 /\ landCalls = 0
  /\ absorbed = 0 /\ inputsLeft = MaxGameInputs
  /\ frameTicks \in FrameTickChoices
  /\ landedCalls = 0
  /\ config = ShippedConfig

NextMarker ==
  \/ \E kind \in InputKinds : FlightInput(kind)
  \/ AutoLand
  \/ Commit
  \/ LandingTimeout

SpecMarker == InitMarker /\ [][NextMarker]_vars

\* One round of a game built with the constants as shipped, or with timing
\* thresholds that are out of order (good below perfect).
BuildConfigs ==
  { ShippedConfig,
    [timing |-> [perfect |-> TIMING.good, good |-> TIMING.perfect,
                 ok |-> TIMING.ok]] }

InitConfig == InitGameWith(MaxInputs, FrameTickChoices, BuildConfigs)

NextConfig ==
  \/ handleStart
  \/ handleTutorialDismiss
  \/ Commit
  \/ IntroTimer
  \/ ApproachFrame
  \/ AutoLaunch
  \/ FlightFrame
  \/ AutoLand
  \/ LandingTimeout
  \/ \E kind \in InputKinds : Input(kind)

SpecConfig == InitConfig /\ [][NextConfig]_vars

\* Launches compared by speed: a flight from every timing grade at every
\* angle a launch can draw and in calm and the two ends of the wind range,
\* stepped to its landing at the display's frame interval.  launchVelRef
\* holds the launch velocity, lastLaunch the payload of the grade.
SpeedAngles == {12, 22, 30, 38, 42, 48, 55}
SpeedWinds == Winds \cup {0}

InitSpeed ==
  /\ screen = "FLIGHT" /\ effScreen = "FLIGHT" /\ pending = "none"
  /\ currentRound = 0 /\ scores = << >>
  /\ currentWind \in SpeedWinds
  /\ flightProgress = 0
  /\ finalScores = << >> /\ totalScore = 0 /\ finalGrade = 0
  /\ isNewRecord = FALSE
  /\ storage = [best |-> 0, gamesPlayed |-> 0, tutorialSeen |-> TRUE]
  /\ \E g \in LaunchGrades, a \in SpeedAngles :
       /\ launchVelRef = LaunchVelocityAt(g, a, currentWind)
       /\ lastLaunch = buildLaunchPayload(g)
  /\ flightState = createFlightState(launchVelRef)
  /\ flightTotalTimeEst = EstimateFlightTime(launchVelRef)
  /\ animFrameRef = "null" /\ rafQueue = NoFrames /\ timers = NoTimers
  /\ elapsed = 0 /\ autoLaunchDue = 0
  /\ launchTimer = [launchedRef |-> TRUE, startTimeRef |-> FALSE,
                    listening |-> FALSE]
  /\ landingTimer = [landedRef |-> FALSE, listening |-> FALSE]
  /\ launchCalls = 1 /\ landCalls = 0
  /\ absorbed = 0 /\ inputsLeft = 0
  /\ frameTicks \in FrameTickChoices
  /\ landedCalls = 0
  /\ config = ShippedConfig

NextSpeed == SimStep

SpecSpeed == InitSpeed /\ [][NextSpeed]_vars

\* Launches on their own: the approach stands at the end of the ramp and
\* the launch timer calls onLaunch; calculateLaunchVelocity gives one of the
\* velocities of FlightSamples, those of the game and those it never makes.
\* The flight loop then steps the live state.
InitEstimate ==
  /\ screen = "APPROACH" /\ effScreen = "APPROACH" /\ pending = "none"
  /\ currentRound = 0 /\ scores = << >>
  /\ currentWind \in generateWind
  /\ flightProgress = 0
  /\ finalScores = << >> /\ totalScore = 0 /\ finalGrade = 0
  /\ isNewRecord = FALSE
  /\ storage = [best |-> 0, gamesPlayed |-> 0, tutorialSeen |-> TRUE]
  /\ flightState = NoFlight /\ flightTotalTimeEst = 3 * 60
  /\ launchVelRef = NoVel
  /\ animFrameRef = "approachTick"
  /\ elapsed = APPROACH_DURATION
  /\ rafQueue = requestFrames(NoFrames, {"approachTick"})
  /\ timers = [NoTimers EXCEPT !.autoLaunch = TRUE]
  /\ autoLaunchDue = APPROACH_DURATION + AUTO_LAUNCH_DELAY
  /\ launchTimer = [launchedRef |-> FALSE, startTimeRef |-> TRUE,
                    listening |-> TRUE]
  /\ landingTimer = [landedRef |-> FALSE, listening |-> FALSE]
  /\ lastLaunch = NoLaunch /\ launchCalls = 0 /\ landCalls = 0
  /\ absorbed = 0 /\ inputsLeft = 0
  /\ frameTicks \in FrameTickChoices
  /\ landedCalls = 0
  /\ config = ShippedConfig

\* doLaunch of the launch timer on a tap at the end of the ramp, and the
\* handleLaunch it calls, with the velocity drawn from FlightSamples.
LaunchSampled ==
  /\ effScreen = "APPROACH" /\ pending = "none"
  /\ ~launchTimer.launchedRef
  /\ launchTimer' = [launchTimer EXCEPT !.launchedRef = TRUE]
  /\ timers' = [timers EXCEPT !.autoLaunch = FALSE]
  /\ \E vel \in FlightSamples :
       handleLaunchFrom(vel, buildLaunchPayload("perfect"), "sync")
  /\ UNCHANGED << currentRound, scores, currentWind, finalScores, totalScore,
                  finalGrade, isNewRecord, storage, elapsed, autoLaunchDue,
                  landingTimer, effScreen, landCalls, inputsLeft, frameTicks,
                  landedCalls, config, absorbed >>

NextEstimate ==
  \/ LaunchSampled
  \/ Commit
  \/ FlightFrame

SpecEstimate == InitEstimate /\ [][NextEstimate]_vars

-----------------------------------------------------------------------------
(* Properties *)

\* C1: within one approach the launch is resolved at most once: onLaunch is
\* called at most once, and once launchedRef is set no input and no timer
\* changes the launch result or the flight it started.
C1_LaunchAtMostOnce ==
  [][ /\ launchCalls' <= 1
      /\ launchTimer.launchedRef =>
           /\ lastLaunch' = lastLaunch
           /\ launchCalls' = launchCalls
           /\ flightState' = flightState ]_vars

\* A tap has arrived after the auto-launch and has been absorbed.
C1_Witness ==
  /\ launchTimer.launchedRef /\ launchTimer.listening
  /\ launchCalls = 1 /\ absorbed > 0
  /\ lastLaunch.grade = "miss"

\* C2: within one flight the landing is resolved at most once: onLand is
\* called at most once, the flight of round r leaves exactly r + 1 results
\* once it has landed (r before), and once landedRef is set no tap changes
\* the results.
C2_LandAtMostOnce ==
  [][ /\ landCalls' <= 1
      /\ effScreen' = "FLIGHT" => Len(scores') = currentRound' + landCalls'
      /\ landingTimer.landedRef =>
           /\ scores' = scores
           /\ landCalls' = landCalls ]_vars

\* A tap has arrived after the auto-land and has been absorbed.
C2_Witness ==
  /\ landingTimer.landedRef /\ landingTimer.listening
  /\ landCalls = 1 /\ absorbed > 0
  /\ Len(scores) = currentRound + 1

\* C3: an approach that gets no input is resolved by the auto-launch timer:
\* the launch is graded 'miss', not before APPROACH_DURATION plus
\* AUTO_LAUNCH_DELAY have passed, and the game goes on to FLIGHT.
C3_AutoLaunchMiss ==
  (effScreen = "APPROACH" /\ pending = "none" /\ launchCalls = 0)
    ~> (/\ screen = "FLIGHT" /\ effScreen = "APPROACH"
        /\ launchCalls = 1
        /\ lastLaunch = buildLaunchPayload("miss")
        /\ elapsed >= APPROACH_DURATION + AUTO_LAUNCH_DELAY)

\* The auto-launch has fired in an approach that saw no input.
C3_Witness ==
  /\ screen = "FLIGHT" /\ effScreen = "APPROACH"
  /\ launchCalls = 1 /\ lastLaunch.grade = "miss"
  /\ inputsLeft = 0 /\ absorbed = 0
  /\ elapsed >= APPROACH_DURATION + AUTO_LAUNCH_DELAY

\* C4: a flight whose progress has reached AUTO_LAND_PROGRESS with no landing
\* accepted is landed by the auto-land effect before anything but an input
\* happens, and a landing that no input made is a crash with
\* LANDING_MULT.crash, at a progress of at least AUTO_LAND_PROGRESS.
C4_AutoLandIsCrash ==
  [][ /\ (AutoLandDue /\ pending = "none") =>
           (inputsLeft' < inputsLeft \/ landingTimer'.landedRef)
      /\ (~landingTimer.landedRef /\ landingTimer'.landedRef
            /\ inputsLeft' = inputsLeft) =>
           /\ ProgressAtLeast(flightProgress, flightTotalTimeEst,
                              AUTO_LAND_PROGRESS_PCT)
           /\ \E result \in roundResult(currentRound, flightState,
                                         CRASH_GRADE, currentWind) :
                scores' = Append(scores, result)
           /\ scores'[Len(scores')].landingGrade = "crash"
           /\ scores'[Len(scores')].multiplier = LANDING_MULT.crash ]_vars

\* The auto-land has resolved a flight that saw no input.
C4_Witness ==
  /\ screen = "LANDING" /\ effScreen = "FLIGHT"
  /\ landingTimer.landedRef /\ inputsLeft = MaxInputs
  /\ ProgressAtLeast(flightProgress, flightTotalTimeEst, AUTO_LAND_PROGRESS_PCT)
  /\ scores # << >> /\ scores[Len(scores)].landingGrade = "crash"

InGameScreens == {"ROUND_INTRO", "APPROACH", "FLIGHT", "LANDING", "SCORE_DISPLAY"}

\* C5: once started, the game progresses without input: in every reachable
\* state of ROUND_INTRO, APPROACH, FLIGHT, LANDING and SCORE_DISPLAY a commit,
\* a timer, a frame or an effect has a step to take.
C5_AlwaysProgress == screen \in InGameScreens => ENABLED AutoNext

\* The flight the simulator has landed below the auto-land threshold: no
\* frame is requested, no timer is pending, the landing is not resolved.
C5_Stalled ==
  /\ screen = "FLIGHT" /\ effScreen = "FLIGHT" /\ pending = "none"
  /\ flightState.landed /\ ~landingTimer.landedRef
  /\ ~ProgressAtLeast(flightProgress, flightTotalTimeEst, AUTO_LAND_PROGRESS_PCT)
  /\ rafQueue = NoFrames /\ timers = NoTimers

\* C6: during play the screen changes only along ROUND_INTRO -> APPROACH ->
\* FLIGHT -> LANDING -> SCORE_DISPLAY, and from SCORE_DISPLAY to ROUND_INTRO
\* of the next round or, after the last round, to RESULTS.
C6_ScreenOrder ==
  [][ (screen \in InGameScreens /\ screen' # screen) =>
        \/ screen = "ROUND_INTRO" /\ screen' = "APPROACH"
        \/ screen = "APPROACH" /\ screen' = "FLIGHT"
        \/ screen = "FLIGHT" /\ screen' = "LANDING"
        \/ screen = "LANDING" /\ screen' = "SCORE_DISPLAY"
        \/ /\ screen = "SCORE_DISPLAY" /\ screen' = "ROUND_INTRO"
           /\ currentRound' = currentRound + 1
           /\ currentRound' < ROUNDS_PER_GAME
        \/ /\ screen = "SCORE_DISPLAY" /\ screen' = "RESULTS"
           /\ currentRound = ROUNDS_PER_GAME - 1 ]_vars

\* A game in which the player has pressed has gone through every screen of
\* every round and has reached RESULTS.
C6_Witness ==
  /\ screen = "RESULTS" /\ effScreen = "RESULTS"
  /\ currentRound = ROUNDS_PER_GAME - 1
  /\ inputsLeft < MaxGameInputs

\* C7: a game is exactly ROUNDS_PER_GAME rounds: currentRound stays in
\* 0..4, the results never exceed 5, and RESULTS is shown with exactly the
\* results of rounds 0..4 in order.
C7_FiveRounds ==
  /\ currentRound \in 0..(ROUNDS_PER_GAME - 1)
  /\ Len(scores) <= ROUNDS_PER_GAME
  /\ screen = "RESULTS" =>
       /\ Len(scores) = ROUNDS_PER_GAME
       /\ \A i \in 1..Len(scores) : scores[i].round = i - 1
       /\ finalScores = scores

\* RESULTS of a game one of whose rounds the player landed with a tap.
C7_Witness ==
  /\ screen = "RESULTS"
  /\ Len(scores) = ROUNDS_PER_GAME
  /\ \E i \in 1..Len(scores) : scores[i].landingGrade # "crash"

\* The largest sum of BEST_N of the distances of s.
BestSum(s) ==
  LET picks == { P \in SUBSET (1..Len(s)) : Cardinality(P) = BEST_N }
      RECURSIVE sumOf(_)
      sumOf(P) == IF P = {} THEN 0
                  ELSE LET i == CHOOSE j \in P : TRUE
                       IN s[i].distance + sumOf(P \ {i})
  IN CHOOSE t \in { sumOf(P) : P \in picks } :
       \A P \in picks : sumOf(P) <= t

Distances(s) == [i \in 1..Len(s) |-> s[i].distance]
CountedRounds(s) == { i \in 1..Len(s) : s[i].counted }

\* C8: finishGame on five results gives as totalScore the sum of the three
\* largest distances and marks exactly three results counted, whose
\* distances make that sum; on [50, 120, 80, 150, 30] the total is 350 and
\* the rounds of 120, 150 and 80 are counted.
C8_BestThree ==
  screen = "RESULTS" =>
    /\ Distances(finalScores) = Distances(scores)
    /\ totalScore = BestSum(finalScores)
    /\ Cardinality(CountedRounds(finalScores)) = BEST_N
    /\ SumCounted(finalScores) = totalScore
    /\ Distances(finalScores) = << 500, 1200, 800, 1500, 300 >> =>
         /\ totalScore = 3500
         /\ CountedRounds(finalScores) = {2, 3, 4}

\* finishGame has run on [50, 120, 80, 150, 30].
C8_Witness ==
  /\ screen = "RESULTS"
  /\ Distances(finalScores) = << 500, 1200, 800, 1500, 300 >>
  /\ totalScore = 3500

\* C9: of two results with equal distances the earlier round is counted
\* before the later one.
C9_TiesEarlierFirst ==
  screen = "RESULTS" =>
    \A i, j \in 1..Len(finalScores) :
      (i < j /\ finalScores[i].distance = finalScores[j].distance
         /\ finalScores[j].counted) => finalScores[i].counted

\* A tie across the best-three boundary: the earlier round counted, the
\* later one not.
C9_Witness ==
  /\ screen = "RESULTS"
  /\ \E i, j \in 1..Len(finalScores) :
       /\ i < j /\ finalScores[i].distance = finalScores[j].distance
       /\ finalScores[i].counted /\ ~finalScores[j].counted

\* The largest total of a game, in 1/10 m: three telemark landings at
\* MAX_DISTANCE.
MaxTotalScore == (BEST_N * MAX_DISTANCE * LANDING_MULT.telemark) \div 10

\* getGrade over 0..MaxTotalScore: a tier of the table each time, and never
\* a lower tier for a higher score.
GradeTotalAndMonotone ==
  /\ \A t \in 0..MaxTotalScore : getGrade(t) \in 1..Len(GRADE_TIERS)
  /\ \A t \in 1..MaxTotalScore : getGrade(t) <= getGrade(t - 1)

\* C10: getGrade gives every score from 0 up exactly one tier of the table,
\* the one whose range holds the score, and a higher score never gets a
\* lower tier.
C10_GradeTotal ==
  /\ GradeTotalAndMonotone
  /\ screen = "RESULTS" =>
       /\ finalGrade \in 1..Len(GRADE_TIERS)
       /\ totalScore >= GRADE_TIERS[finalGrade]
       /\ finalGrade > 1 => totalScore < GRADE_TIERS[finalGrade - 1]

\* finishGame has graded a total of 0 and one that sits on a tier minimum.
C10_Witness ==
  /\ screen = "RESULTS"
  /\ finalGrade \in 1..Len(GRADE_TIERS)
  /\ totalScore = GRADE_TIERS[finalGrade]
  /\ totalScore > 0

\* The frame callbacks the effects of a screen keep requested.
FramesOf(s) ==
  IF s = "APPROACH" THEN {"approachTick", "launchTick"}
  ELSE IF s = "FLIGHT" THEN {"flightTick"}
  ELSE {}

\* C11: once the effects of a state are in place, or the game is unmounted,
\* every frame callback and every phase-transition timer still pending was
\* scheduled by the state in place: the callbacks and timers of the earlier
\* states, the 550 ms timer of handleLand included, have been cancelled.
C11_NoStaleCallbacks ==
  pending = "none" =>
    /\ Queued \subseteq FramesOf(effScreen)
    /\ timers.intro => effScreen = "ROUND_INTRO"
    /\ timers.autoLaunch => effScreen = "APPROACH"
    /\ timers.landing > 0 => effScreen = "LANDING"
    /\ timers.score => effScreen = "SCORE_DISPLAY"

\* The game has been unmounted during the landing delay and the timer of
\* handleLand is still pending.
C11_StaleLandingTimer ==
  /\ effScreen = "UNMOUNTED" /\ screen = "LANDING"
  /\ timers.landing > 0

\* The state of the game: everything but the count of the inputs still to
\* come and the count of the taps a latched guard has met.
gameState ==
  << screen, currentRound, scores, currentWind, flightProgress, finalScores,
     totalScore, finalGrade, isNewRecord, storage, flightState,
     flightTotalTimeEst, launchVelRef, animFrameRef, rafQueue, timers, elapsed,
     autoLaunchDue, launchTimer, landingTimer, effScreen, pending,
     lastLaunch, launchCalls, landCalls, frameTicks, landedCalls, config >>

\* C12: an input event out of its phase is ignored: unless the screen is
\* APPROACH it resolves no launch, unless the screen is FLIGHT it resolves no
\* landing, and during ROUND_INTRO, LANDING and SCORE_DISPLAY it changes no
\* game state.  The screen is the one set and the one committed.
C12_OutOfPhaseIgnored ==
  [][ inputsLeft' < inputsLeft =>
        /\ ~(screen = "APPROACH" /\ effScreen = "APPROACH") =>
             /\ launchCalls' = launchCalls /\ lastLaunch' = lastLaunch
             /\ flightState' = flightState
             /\ flightTotalTimeEst' = flightTotalTimeEst
        /\ ~(screen = "FLIGHT" /\ effScreen = "FLIGHT") =>
             /\ landCalls' = landCalls /\ scores' = scores
             /\ landingTimer' = landingTimer
        /\ (screen \in QuietScreens \/ effScreen \in QuietScreens) =>
             gameState' = gameState ]_vars

\* A round in which every input came out of phase: the launch and the
\* landing are those of the timers, and the score is on display.
C12_Witness ==
  /\ inputsLeft = 0
  /\ effScreen = "SCORE_DISPLAY"
  /\ Len(scores) = 1 /\ scores[1].landingGrade = "crash"
  /\ lastLaunch = buildLaunchPayload("miss")

\* An input has left the landing of the flight unresolved.
LandingUnresolved ==
  /\ landCalls' = landCalls /\ scores' = scores
  /\ screen' = "FLIGHT" /\ pending' = pending
  /\ ~landingTimer'.landedRef
  /\ flightState' = flightState /\ flightProgress' = flightProgress

\* C13 as stated: Input during the flight while flightProgress has not
\* exceeded 0.5 (flightProgress <= 0.5) leaves the landing unresolved.
C13_NotExceededNeverLands ==
  [][ (inputsLeft' < inputsLeft /\ screen = "FLIGHT" /\ effScreen = "FLIGHT"
         /\ 2 * flightProgress <= flightTotalTimeEst)
        => LandingUnresolved ]_vars

\* C13, amended: an input during the flight while flightProgress is below
\* 0.5 never resolves the landing: onLand is not called, no result is
\* appended, and the round stays in FLIGHT with the landing unresolved.
C13_BelowHalfNeverLands ==
  [][ (inputsLeft' < inputsLeft /\ screen = "FLIGHT" /\ effScreen = "FLIGHT"
         /\ ~ProgressAtLeast(flightProgress, flightTotalTimeEst, BOOST_ZONE_PCT))
        => LandingUnresolved ]_vars

\* Every input of the round came in the first half of the flight, and the
\* flight is still on with no landing.
C13_Witness ==
  /\ inputsLeft = 0
  /\ screen = "FLIGHT" /\ effScreen = "FLIGHT" /\ pending = "none"
  /\ flightProgress > 0
  /\ ~ProgressAtLeast(flightProgress, flightTotalTimeEst, BOOST_ZONE_PCT)
  /\ landCalls = 0 /\ ~landingTimer.landedRef /\ scores = << >>

\* C14: the launch computation is a function of (grade, windSpeed): the
\* flight a launch starts has the one angle, speed, vx and vy that every
\* call of calculateLaunchVelocity with that grade and wind returns.
C14_LaunchDeterministic ==
  [][ launchCalls' > launchCalls =>
        \A vel \in calculateLaunchVelocity(lastLaunch'.grade, currentWind) :
          flightState' = createFlightState(vel) ]_vars

\* Two calls with the same grade and wind that return different velocities.
C14_TwoResults ==
  /\ screen = "FLIGHT" /\ launchCalls = 1
  /\ \E vel \in calculateLaunchVelocity(lastLaunch.grade, currentWind) :
       /\ vel.angle # LAUNCH_ANGLES[lastLaunch.grade].min
       /\ flightState.vx # vel.vx

\* C15: the distance of every FlightState lies within [0, MAX_DISTANCE],
\* after any number of steps from any launch, whether the hill-contact test
\* or the safety bound has landed it.
C15_DistanceClamped ==
  flightState # NoFlight =>
    /\ flightState.distance >= 0
    /\ flightState.distance <= MAX_DISTANCE * 1000

\* A flight the safety bound has landed beyond the scene, its distance cut
\* to MAX_DISTANCE.
C15_Witness ==
  /\ flightState # NoFlight /\ flightState.landed
  /\ flightState.x > (GAME_W + 20) * 1000
  /\ flightState.y < getHillY(flightState.x)
  /\ flightState.distance = MAX_DISTANCE * 1000

\* C16: landed is terminal: once landed is true a further simulateFlight
\* call leaves x, y, vx, vy, flightTime, distance and landed as they are.
C16_LandedTerminal ==
  [][ (flightState # NoFlight /\ flightState.landed) =>
        flightState' = flightState ]_vars

\* simulateFlight has been called on a state that had landed.
C16_Witness ==
  /\ flightState # NoFlight /\ flightState.landed
  /\ landedCalls = MaxLandedCalls

\* The order of the grades, best highest.
launchRank(g) ==
  CASE g = "perfect" -> 3 [] g = "good" -> 2 [] g = "ok" -> 1 [] g = "miss" -> 0
landingRank(g) ==
  CASE g = "telemark" -> 3 [] g = "clean" -> 2 [] g = "shaky" -> 1
    [] g = "crash" -> 0

\* The largest timing error of a tap, ms: the approach ends at the
\* auto-launch.
MaxLaunchError == APPROACH_DURATION + AUTO_LAUNCH_DELAY

\* The timing error of a landing tap at progress n / den, in 1/100 of den.
landingError(n, den) == Abs(100 * n - (OPTIMAL_PROGRESS_PCT - TAP_SHIFT_PCT) * den)

\* C17: the graders are monotone.  The grade a tap gets for its error is
\* never worse than the grade of any larger error and never better than the
\* grade of any smaller one, for the launch (errors in ms) and for the
\* landing (errors in progress, against the same flight estimate).
C17_GradersMonotone ==
  [][ /\ (launchCalls' > launchCalls /\ inputsLeft' < inputsLeft) =>
           LET e == Abs(elapsed - APPROACH_DURATION)
               r == launchRank(lastLaunch'.grade)
           IN \A e2 \in 0..MaxLaunchError :
                /\ e2 > e => launchRank(launchGradeFromError(e2)) <= r
                /\ e2 < e => launchRank(launchGradeFromError(e2)) >= r
      /\ (landCalls' > landCalls /\ inputsLeft' < inputsLeft) =>
           LET den == flightTotalTimeEst
               e == landingError(flightProgress, den)
               r == landingRank(scores'[Len(scores')].landingGrade)
               gradeAt(n) ==
                 landingGradeFromError(n, den,
                                       OPTIMAL_PROGRESS_PCT - TAP_SHIFT_PCT).grade
           IN \A n2 \in 0..den :
                /\ landingError(n2, den) > e => landingRank(gradeAt(n2)) <= r
                /\ landingError(n2, den) < e => landingRank(gradeAt(n2)) >= r
    ]_vars

\* A round whose launch and landing were both graded from a tap, neither
\* with the best nor with the worst grade.
C17_Witness ==
  /\ screen = "LANDING" /\ Len(scores) = 1
  /\ lastLaunch.grade \in {"good", "ok"}
  /\ scores[1].landingGrade \in {"clean", "shaky"}

\* An input has resolved the launch in this step.
TapLaunch == launchCalls' > launchCalls /\ inputsLeft' < inputsLeft

\* C18: the launch grader gives perfect for an error up to TIMING.perfect,
\* else good up to TIMING.good, else ok up to TIMING.ok, else miss; an error
\* equal to a threshold gets the better grade.
C18_LaunchGrader ==
  [][ TapLaunch =>
        LET e == Abs(elapsed - APPROACH_DURATION)
            g == lastLaunch'.grade
        IN /\ g = IF e <= TIMING.perfect THEN "perfect"
                  ELSE IF e <= TIMING.good THEN "good"
                  ELSE IF e <= TIMING.ok THEN "ok"
                  ELSE "miss"
           /\ e = TIMING.perfect => g = "perfect"
           /\ e = TIMING.good => g = "good"
           /\ e = TIMING.ok => g = "ok"
           /\ e = TIMING.ok + 1 => g = "miss" ]_vars

\* A tap exactly TIMING.good from the optimal moment has been graded good.
C18_Witness ==
  /\ launchCalls = 1 /\ inputsLeft < MaxGameInputs
  /\ Abs(elapsed - APPROACH_DURATION) = TIMING.good
  /\ lastLaunch.grade = "good"

\* C19: with TIMING = {perfect: 100, good: 220, ok: 400}, a launch input
\* 50 ms from the optimal moment gives a launch graded perfect, with
\* speed multiplier 1.30 and a launch angle of 38 degrees: the flight starts
\* with the velocity of that angle and speed.
C19_PerfectAtFifty ==
  [][ (TapLaunch /\ Abs(elapsed - APPROACH_DURATION) = 50) =>
        /\ TIMING = [perfect |-> 100, good |-> 220, ok |-> 400]
        /\ lastLaunch' = [grade |-> "perfect", speedMult |-> 130]
        /\ \A vel \in calculateLaunchVelocity("perfect", currentWind) :
             /\ vel.angle = 38
             /\ vel.speed = (BaseSpeedMs * 130 * PIXEL_SCALE_TENTHS) \div 100
             /\ flightState' = createFlightState(vel) ]_vars

\* A tap 50 ms after the optimal moment has launched the flight.
C19_Witness ==
  /\ launchCalls = 1 /\ inputsLeft < MaxGameInputs
  /\ elapsed = APPROACH_DURATION + 50
  /\ lastLaunch.grade = "perfect"
  /\ flightState # NoFlight

\* C20: the final distance of a round is its raw distance times the landing
\* multiplier, both to one decimal place: the result handleLand appends has
\* the rounded raw distance, the multiplier of its landing grade, and a
\* final distance within half a tenth of their product; a crash (0.7) on a
\* raw distance of 100.0 m gives exactly 70.0 m.
C20_FinalDistance ==
  [][ landCalls' > landCalls =>
        LET r == scores'[Len(scores')]
            rawDist == Max(0, ((flightState.x - RAMP_LIP_X * 1000) * 1000)
                                \div PIXELS_PER_METRE_MILLI)
        IN /\ Len(scores') = Len(scores) + 1
           /\ r.rawDistance = RoundDiv(rawDist, 100)
           /\ r.multiplier = LANDING_MULT[r.landingGrade]
           /\ Abs(100 * r.distance - r.rawDistance * r.multiplier) <= 50
           /\ (r.rawDistance = 1000 /\ r.landingGrade = "crash") =>
                r.distance = 700 ]_vars

\* A crash landing at a raw distance of 100.0 m has scored 70.0 m.
C20_Witness ==
  /\ landCalls = 1 /\ Len(scores) = 1
  /\ scores[1].rawDistance = 1000 /\ scores[1].landingGrade = "crash"
  /\ scores[1].multiplier = 70 /\ scores[1].distance = 700

C22_PlayAgainAtIntro ==
  [][ (screen = "RESULTS" /\ screen' # "RESULTS") =>
        /\ screen' = "ROUND_INTRO"
        /\ currentRound' = 0
        /\ scores' = << >> ]_vars

\* C22, amended: play again in RESULTS puts the machine at TITLE, with the
\* FlightState and the flight progress cleared and no frame or timer
\* pending; the results and the round of the finished game stay until the
\* next start, and that start puts the machine at ROUND_INTRO of round 0
\* (through TUTORIAL when no tutorial flag is stored) with the results, the
\* final results, the total, the grade and the record flag reset.
C22_PlayAgainThenStart ==
  [][ /\ (screen = "RESULTS" /\ screen' # "RESULTS") =>
           /\ screen' = "TITLE"
           /\ flightState' = NoFlight /\ flightProgress' = 0
           /\ rafQueue' = NoFrames /\ timers' = NoTimers
           /\ scores' = scores /\ currentRound' = currentRound
      /\ (screen = "TITLE" /\ screen' # "TITLE" /\ storage.gamesPlayed > 0) =>
           /\ screen' = IF storage.tutorialSeen THEN "ROUND_INTRO"
                        ELSE "TUTORIAL"
           /\ currentRound' = 0
           /\ scores' = << >> /\ finalScores' = << >>
           /\ totalScore' = 0 /\ finalGrade' = 0 /\ isNewRecord' = FALSE
           /\ flightState' = NoFlight /\ flightProgress' = 0
           /\ rafQueue' = NoFrames /\ timers' = NoTimers ]_vars

\* The game after the first has started: round 0, no results, after a game
\* that left five.
C22_Witness ==
  /\ screen = "ROUND_INTRO" /\ effScreen = "ROUND_INTRO"
  /\ storage.gamesPlayed = 1
  /\ currentRound = 0 /\ scores = << >> /\ flightState = NoFlight

EntersIntro == screen' = "ROUND_INTRO" /\ screen # "ROUND_INTRO"

\* C24: the wind is drawn once per round, on the step that enters the
\* round's ROUND_INTRO, from within WIND_RANGE, and no other step changes it:
\* the launch computation gets the round's wind, and the result of the
\* round stores the same wind.
C24_WindOncePerRound ==
  [][ /\ currentWind' # currentWind => EntersIntro
      /\ EntersIntro =>
           /\ currentWind' \in generateWind
           /\ currentWind' >= WIND_RANGE.min /\ currentWind' <= WIND_RANGE.max
      /\ launchCalls' > launchCalls =>
           \E vel \in calculateLaunchVelocity(lastLaunch'.grade, currentWind) :
             flightState' = createFlightState(vel)
      /\ landCalls' > landCalls =>
           /\ scores'[Len(scores')].round = currentRound
           /\ scores'[Len(scores')].wind = currentWind
           /\ \A i \in 1..Len(scores) : scores'[i].wind = scores[i].wind
    ]_vars

\* Two rounds of a game have been played under different winds, each stored
\* on its result.
C24_Witness ==
  /\ Len(scores) = 2 /\ currentRound = 1 /\ screen = "LANDING"
  /\ scores[1].wind # scores[2].wind
  /\ scores[2].wind = currentWind

\* C25: within a game the results change only by the append of one result
\* with counted = false per round and by the one backfill of counted at the
\* end of the game: the entries appended before keep every field but
\* counted and keep their order, and counted is false on every entry until
\* all ROUNDS_PER_GAME rounds are complete.  The start of a game begins a
\* new, empty list.
C25_ResultsAppendOnly ==
  [][ /\ scores' # scores =>
           \/ /\ landCalls' > landCalls
              /\ Len(scores') = Len(scores) + 1
              /\ \A i \in 1..Len(scores) : scores'[i] = scores[i]
              /\ ~scores'[Len(scores')].counted
              /\ scores'[Len(scores')].round = Len(scores)
           \/ /\ screen = "SCORE_DISPLAY" /\ screen' = "RESULTS"
              /\ Len(scores) = ROUNDS_PER_GAME
              /\ Len(scores') = Len(scores)
              /\ \A i \in 1..Len(scores) :
                   /\ ~scores[i].counted
                   /\ scores'[i] = [scores[i] EXCEPT !.counted = scores'[i].counted]
           \/ /\ screen = "TITLE" /\ screen' # "TITLE"
              /\ scores' = << >>
      /\ \A i \in 1..Len(scores') :
           scores'[i].counted =>
             /\ Len(scores') = ROUNDS_PER_GAME
             /\ storage'.gamesPlayed > 0
             /\ finalScores' = scores'
    ]_vars

\* The backfill has run on results that were not in order of distance: the
\* first round is not counted, a later and longer one is.
C25_Witness ==
  /\ screen = "RESULTS" /\ Len(scores) = ROUNDS_PER_GAME
  /\ ~scores[1].counted
  /\ \E j \in 2..Len(scores) :
       scores[j].counted /\ scores[j].distance > scores[1].distance

\* The timing thresholds are monotonic: perfect, good, ok in rising order.
ValidTiming(t) == t.perfect <= t.good /\ t.good <= t.ok

C26_RoundUnderInvalidConfig ==
  /\ ~ValidTiming(config.timing)
  /\ screen = "FLIGHT" /\ launchCalls = 1
  /\ inputsLeft < MaxInputs

C28_MultiplierMonotone ==
  [][ (landCalls' > landCalls /\ inputsLeft' < inputsLeft) =>
        LET den == flightTotalTimeEst
            e == landingError(flightProgress, den)
            r == scores'[Len(scores')]
            multAt(n) ==
              landingGradeFromError(n, den,
                                    OPTIMAL_PROGRESS_PCT - TAP_SHIFT_PCT).multiplier
        IN /\ r.multiplier = multAt(flightProgress)
           /\ \A n2 \in 0..den :
                /\ landingError(n2, den) > e => multAt(n2) <= r.multiplier
                /\ landingError(n2, den) < e => multAt(n2) >= r.multiplier
                /\ multAt(n2) <= LANDING_MULT.telemark
                /\ multAt(n2) >= LANDING_MULT.crash
           /\ r.landingGrade = "telemark" =>
                r.multiplier > 100 /\ r.multiplier = LANDING_MULT.telemark
           /\ r.landingGrade = "crash" =>
                r.multiplier < 100 /\ r.multiplier = LANDING_MULT.crash
    ]_vars

\* A tap early in the landing zone has crashed: the landing is resolved
\* below the auto-land threshold, with the crash multiplier.
C28_Witness ==
  /\ landCalls = 1 /\ Len(scores) = 1
  /\ ~ProgressAtLeast(flightProgress, flightTotalTimeEst, AUTO_LAND_PROGRESS_PCT)
  /\ scores[1].landingGrade = "crash"
  /\ scores[1].multiplier = LANDING_MULT.crash

\* The landing of the launch of grade g at the angle and in the wind of the
\* flight in hand, stepped at the same frame interval.
LandingAtGrade(g) ==
  StepsBy(createFlightState(LaunchVelocityAt(g, launchVelRef.angle, currentWind)),
          frameTicks, 10 * 60)

\* C29: with the launch angle, the wind, the hill and the step size held
\* fixed, the launch with the strictly higher speed multiplier lands
\* strictly farther: against the landed flight, every grade of a higher
\* SPEED_MULT lands at a greater distance and a greater x, and every grade
\* of a lower one at a smaller distance and a smaller x.
C29_DistanceGrowsWithSpeed ==
  (flightState.landed /\ launchVelRef # NoVel) =>
    \A g \in LaunchGrades :
      LET other == LandingAtGrade(g)
      IN /\ other.landed
         /\ SPEED_MULT[g] > lastLaunch.speedMult =>
              /\ other.distance > flightState.distance
              /\ other.x > flightState.x
         /\ SPEED_MULT[g] < lastLaunch.speedMult =>
              /\ other.distance < flightState.distance
              /\ other.x < flightState.x
         /\ SPEED_MULT[g] = lastLaunch.speedMult =>
              other.distance = flightState.distance

\* A good launch at 38 degrees has landed on the hill, short of where the
\* perfect launch at that angle and in that wind comes down.
C29_Witness ==
  /\ flightState.landed /\ launchVelRef # NoVel
  /\ lastLaunch.grade = "good" /\ launchVelRef.angle = 38
  /\ flightState.y = getHillY(flightState.x)
  /\ flightState.distance > 0
  /\ LandingAtGrade("perfect").distance > flightState.distance
  /\ LandingAtGrade("ok").distance < flightState.distance

\* The flight state has been stepped: flightStateRef holds the same flight,
\* further on in time.
FlightStepped ==
  /\ flightState # NoFlight /\ flightState' # NoFlight
  /\ flightState'.flightTime > flightState.flightTime

\* C30: at most one request of the flight loop's tick is pending at any
\* time, and once handleLand has run for a round none is pending and no
\* step is applied to the flight state of that round: flightStateRef keeps
\* it as it was until handleLaunch stores the state of the next flight or
\* handlePlayAgain clears it.
C30_OneFlightTick ==
  /\ [](rafQueue["flightTick"] <= 1)
  /\ []((landCalls > 0 /\ effScreen = "FLIGHT") => rafQueue["flightTick"] = 0)
  /\ [][ landCalls > 0 =>
            /\ ~FlightStepped
            /\ flightState' # flightState =>
                 \/ flightState' = NoFlight
                 \/ /\ flightState'.flightTime = 0
                    /\ launchCalls' = launchCalls + 1 ]_vars

\* A tap has landed a flight that was still in the air with a tick of its
\* loop requested: the request is gone and the state stands where the
\* last step left it.
C30_Witness ==
  /\ effScreen = "FLIGHT" /\ landCalls = 1
  /\ flightState # NoFlight /\ ~flightState.landed
  /\ flightState.flightTime > 0
  /\ rafQueue["flightTick"] = 0 /\ animFrameRef = "null"
  /\ Len(scores) = currentRound + 1

\* C31: flightProgress is 0 when a flight phase is entered (when handleLaunch
\* sets the screen to FLIGHT and when the effects of FLIGHT are set up), it
\* lies between 0 and 1 in every state (the numerator between 0 and the
\* estimate it is divided by), and it does not decrease from one state of a
\* flight phase to the next.
C31_ProgressInFlight ==
  /\ [](flightTotalTimeEst > 0)
  /\ [](0 <= flightProgress /\ flightProgress <= flightTotalTimeEst)
  /\ []((screen = "FLIGHT" /\ effScreen # "FLIGHT") => flightProgress = 0)
  /\ [][ /\ (screen # "FLIGHT" /\ screen' = "FLIGHT") => flightProgress' = 0
         /\ (effScreen # "FLIGHT" /\ effScreen' = "FLIGHT") => flightProgress' = 0
         /\ (screen = "FLIGHT" /\ screen' = "FLIGHT") =>
              flightProgress' * flightTotalTimeEst
                >= flightProgress * flightTotalTimeEst' ]_vars

\* The frame that put the jumper down has set the progress of a flight
\* under way: above the boost zone, below 1, and the loop has stopped.
C31_Witness ==
  /\ screen = "FLIGHT" /\ effScreen = "FLIGHT"
  /\ flightState # NoFlight /\ flightState.landed
  /\ flightProgress > 0 /\ 2 * flightProgress > flightTotalTimeEst
  /\ flightProgress <= flightTotalTimeEst
  /\ flightProgress = Min(flightState.flightTime, flightTotalTimeEst)
  /\ rafQueue["flightTick"] = 0

\* The state createFlightState gives for the velocity in launchVelRef.
FreshFlight(vel) ==
  [x |-> RAMP_LIP_X * 1000, y |-> RAMP_LIP_Y * 1000,
   vx |-> vel.vx, vy |-> vel.vy,
   landed |-> FALSE, distance |-> 0, flightTime |-> 0]

\* C32: the estimation run of handleLaunch leaves the live flight state
\* alone: the step that resolves a launch leaves flightStateRef at RAMP_LIP
\* with the launch velocity, not landed, with flightTime 0 and distance 0,
\* and it stays so until the flight loop is set up, whether the estimation
\* run ended on the hill, at the safety bound or at the cap of 10 s.
C32_EstimateLeavesLiveState ==
  /\ []((screen = "FLIGHT" /\ effScreen = "APPROACH") =>
          flightState = FreshFlight(launchVelRef))
  /\ [][ launchCalls' = launchCalls + 1 =>
            /\ launchVelRef' # NoVel
            /\ flightState' = FreshFlight(launchVelRef')
            /\ flightTotalTimeEst'
                 = Max(Steps(FreshFlight(launchVelRef'), 10 * 60).flightTime, 30) ]_vars

\* A launch has been resolved whose estimation run reached the cap of 10 s
\* without landing, and the live state stands fresh at the lip.
C32_Witness ==
  /\ screen = "FLIGHT" /\ effScreen = "APPROACH" /\ launchCalls = 1
  /\ launchVelRef # NoVel
  /\ flightTotalTimeEst = 10 * 60
  /\ ~Steps(FreshFlight(launchVelRef), 10 * 60).landed
  /\ flightState = FreshFlight(launchVelRef)

\* A launch has just been resolved: handleLaunch has run and the effects of
\* FLIGHT are not yet set up.
LaunchResolved ==
  screen = "FLIGHT" /\ effScreen = "APPROACH" /\ launchVelRef # NoVel

BeyondScene(s) == s.x > (GAME_W + 20) * 1000 \/ s.y > (GAME_H + 20) * 1000

\* C34: a flight state whose position is beyond the scene bounds after a
\* step (x > GAME_W + 20 or y > GAME_H + 20) has been landed by that step:
\* landed is true and the distance is that of the run past the lip cut to
\* [0, GAME_W] and then to [0, MAX_DISTANCE]; the step before it had not
\* landed.
C34_SafetyBoundLands ==
  /\ [](flightState # NoFlight /\ BeyondScene(flightState) =>
          /\ flightState.landed
          /\ flightState.distance >= 0
          /\ flightState.distance <= MAX_DISTANCE * 1000
          /\ flightState.distance =
               clamp((clamp(flightState.x - RAMP_LIP_X * 1000, 0, GAME_W * 1000)
                        * 1000) \div PIXELS_PER_METRE_MILLI,
                     0, MAX_DISTANCE * 1000))
  /\ [][ (flightState # NoFlight /\ flightState' # flightState
            /\ BeyondScene(flightState')) =>
           (~flightState.landed /\ ~BeyondScene(flightState)
            /\ flightState'.landed) ]_vars

\* A jumper that fell below the scene without passing the lip: the safety
\* bound has landed the flight at distance 0.
C34_Witness ==
  /\ flightState # NoFlight /\ flightState.landed
  /\ flightState.y > (GAME_H + 20) * 1000
  /\ flightState.x <= RAMP_LIP_X * 1000
  /\ flightState.distance = 0

\* The position a step has integrated reaches the hill past the lip.
ReachesHill(n) == n.y >= getHillY(n.x) /\ n.x > RAMP_LIP_X * 1000

\* C35: a step registers a hill-contact landing exactly when the y it has
\* integrated is at or below the hill surface (y >= hillY(x)) and x is
\* strictly past the lip, and then the resulting state lies on the hill,
\* y = hillY(x); a step that lands without it has been landed by the safety
\* bound and keeps its y; every landed state within the scene bounds lies
\* on the hill past the lip.
C35_HillContact ==
  /\ []((flightState # NoFlight /\ flightState.landed
           /\ ~BeyondScene(flightState)) =>
          /\ flightState.y = getHillY(flightState.x)
          /\ flightState.x > RAMP_LIP_X * 1000)
  /\ [][ (flightState # NoFlight /\ flightState' # NoFlight
            /\ flightState'.flightTime = flightState.flightTime + frameTicks) =>
           LET n == Integrate(flightState, frameTicks)
           IN /\ flightState'.x = n.x
              /\ ReachesHill(n) =>
                   /\ flightState'.landed
                   /\ flightState'.y = getHillY(flightState'.x)
                   /\ n.y >= flightState'.y
              /\ ~ReachesHill(n) =>
                   /\ flightState'.y = n.y
                   /\ flightState'.landed = BeyondScene(flightState') ]_vars

\* A step has put the jumper down on the hill, past the lip and within the
\* scene, at a distance above 0.
C35_Witness ==
  /\ flightState # NoFlight /\ flightState.landed
  /\ ~BeyondScene(flightState)
  /\ flightState.x > RAMP_LIP_X * 1000
  /\ flightState.y = getHillY(flightState.x)
  /\ flightState.distance > 0 /\ flightState.flightTime > 0

TapGradeAgainst(n, den, target) ==
  LET e == Abs(100 * n - target * den)
  IN IF e <= 6 * den THEN "telemark"
     ELSE IF e <= 14 * den THEN "clean"
     ELSE IF e <= 24 * den THEN "shaky"
     ELSE "crash"

\* C37 as stated: the grade of a tapped landing is that of the error
\* |flightProgress - OPTIMAL_PROGRESS| against OPTIMAL_PROGRESS = 0.82.
C37_GradedAgainstOptimal ==
  [][ (landCalls' > landCalls /\ inputsLeft' < inputsLeft) =>
        scores'[Len(scores')].landingGrade
          = TapGradeAgainst(flightProgress, flightTotalTimeEst,
                            OPTIMAL_PROGRESS_PCT) ]_vars

\* C37, amended: the grade of a tapped landing is that of the error
\* |flightProgress - (OPTIMAL_PROGRESS - 0.02)|, the progress against 0.80:
\* up to 0.06 telemark, up to 0.14 clean, up to 0.24 shaky, beyond it crash,
\* with the multiplier LANDING_MULT gives the grade.
C37_GradedAgainstShifted ==
  [][ (landCalls' > landCalls /\ inputsLeft' < inputsLeft) =>
        LET r == scores'[Len(scores')]
        IN /\ r.landingGrade
                = TapGradeAgainst(flightProgress, flightTotalTimeEst,
                                  OPTIMAL_PROGRESS_PCT - 2)
           /\ r.multiplier = LANDING_MULT[r.landingGrade] ]_vars

\* A tap has been graded where the two targets part: the grade on the
\* round result is that of the error against 0.80, and the error against
\* 0.82 would have given another.
C37_Witness ==
  /\ landCalls = 1 /\ Len(scores) = 1
  /\ scores[1].landingGrade
       = TapGradeAgainst(flightProgress, flightTotalTimeEst,
                         OPTIMAL_PROGRESS_PCT - 2)
  /\ scores[1].landingGrade
       # TapGradeAgainst(flightProgress, flightTotalTimeEst,
                         OPTIMAL_PROGRESS_PCT)
  /\ scores[1].landingGrade \in {"telemark", "clean"}

\* The launch of the flight in hand, had the wind been w: the same timing
\* grade and the same angle.
LaunchInWind(w) ==
  LaunchVelocityAt(lastLaunch.grade, launchVelRef.angle, w)

\* The flight of that launch after as many steps of the same frame interval
\* as the flight in hand has taken.
FlightInWind(w) ==
  StepsBy(createFlightState(LaunchInWind(w)), frameTicks,
          flightState.flightTime \div frameTicks)

\* C38: wind influences the flight only through the horizontal launch
\* velocity.  Of two launches that differ only in windSpeed the vertical
\* velocity, the speed and the angle are identical and the horizontal
\* velocities differ by the wind difference times PIXEL_SCALE * 0.3; and no
\* step of the simulation brings the wind in again: while both flights are
\* in the air they have, step for step, the same vertical velocity and the
\* same height, and the flight in the stronger tailwind is never behind.
C38_WindOnlyHorizontal ==
  (launchVelRef # NoVel /\ flightState # NoFlight) =>
    \A w \in SpeedWinds :
      LET vel == LaunchInWind(w)
          other == FlightInWind(w)
      IN /\ launchVelRef = LaunchInWind(currentWind)
         /\ vel.vy = launchVelRef.vy
         /\ vel.speed = launchVelRef.speed
         /\ vel.angle = launchVelRef.angle
         /\ vel.vx - launchVelRef.vx
              = (w - currentWind) * PIXEL_SCALE_TENTHS * 3
         /\ (~flightState.landed /\ ~other.landed) =>
              /\ other.flightTime = flightState.flightTime
              /\ other.vy = flightState.vy
              /\ other.y = flightState.y
              /\ w > currentWind => /\ other.vx >= flightState.vx
                                    /\ other.x >= flightState.x
              /\ w < currentWind => /\ other.vx <= flightState.vx
                                    /\ other.x <= flightState.x

\* A flight launched into the strongest headwind is in the air after some
\* steps, at the height of the flight of the same launch in the strongest
\* tailwind and behind it.
C38_Witness ==
  /\ launchVelRef # NoVel /\ flightState # NoFlight
  /\ currentWind = WIND_RANGE.min
  /\ ~flightState.landed /\ flightState.flightTime >= 30
  /\ LaunchInWind(WIND_RANGE.max).vx > launchVelRef.vx
  /\ LaunchInWind(WIND_RANGE.max).vy = launchVelRef.vy
  /\ ~FlightInWind(WIND_RANGE.max).landed
  /\ FlightInWind(WIND_RANGE.max).y = flightState.y
  /\ FlightInWind(WIND_RANGE.max).x > flightState.x

====
